---- MODULE Spec2Model ----
(***************************************************************************)
(* Model of the user micro-service of nexusforge-platform (python):        *)
(*   app/services/user_service.py   UserService                            *)
(*   app/utils/cache.py             CacheManager                           *)
(*   app/utils/auth.py              token decoding, get_current_user       *)
(*   app/middleware/rate_limit.py   RateLimitMiddleware.dispatch           *)
(*   app/models/user.py, base.py    User row, validators, soft delete      *)
(*   app/routes/api.py              error mapping of the create route      *)
(*                                                                         *)
(* Every request is a coroutine; it can be suspended exactly at its awaits *)
(* (calls into the relational store and into Redis).  A request is a       *)
(* process p with a program counter; one action is one await together with *)
(* the synchronous code that follows it up to the next await.              *)
(*                                                                         *)
(* Two specifications share the module:                                    *)
(*   Spec    the user service, the entity cache and the auth resolver      *)
(*   RLSpec  the rate limiting middleware and its Redis counters           *)
(***************************************************************************)
EXTENDS Integers, Sequences, FiniteSets

VARIABLES users,         \* relational store: table "users", row i has id i
          cache,         \* Redis keys "user:<id>": serialized snapshots
          enable_cache,  \* settings.enable_cache
          redis,         \* cache_manager._redis : "None" or "client"
          proc,          \* the user-service request run by each process
          retVer,        \* history: per id, newest row version written by
                         \* an update_user call that has returned its user
          rl,            \* Redis keys "rate_limit:<client>"
          req            \* the request in RateLimitMiddleware.dispatch

vars == <<users, cache, enable_cache, redis, proc, retVer,
          rl, req>>

svcVars == <<users, cache, proc, retVer>>
rlVars  == <<rl, req>>

-----------------------------------------------------------------------------
(* Bounds of the model *)

MaxUsers == 2
MaxWrites == 1

Procs == {"p1", "p2"}
\* the user ids that requests address; the other rows of the table are the
\* users it can collide with
Ids == {1}

-----------------------------------------------------------------------------
(* Strings.  A string is a sequence of character codes:                    *)
(*   0 = " ", 1..26 = "a".."z", 27..52 = "A".."Z", 53 = "@",               *)
(*   54..63 = "0".."9"                                                     *)

\* str.lower()
lower(s) == [i \in DOMAIN s |-> IF s[i] \in 27 .. 52 THEN s[i] - 26 ELSE s[i]]

RECURSIVE lstrip(_)
lstrip(s) == IF s # << >> /\ Head(s) = 0 THEN lstrip(Tail(s)) ELSE s

RECURSIVE rstrip(_)
rstrip(s) ==
    IF s # << >> /\ s[Len(s)] = 0 THEN rstrip(SubSeq(s, 1, Len(s) - 1)) ELSE s

\* str.strip()
strip(s) == rstrip(lstrip(s))

\* str(n) of a non-negative int
RECURSIVE str_int(_)
str_int(n) ==
    IF n < 10 THEN <<54 + n>>
    ELSE Append(str_int(n \div 10), 54 + (n % 10))

RECURSIVE DigitsValue(_)
DigitsValue(s) ==
    IF s = << >> THEN 0
    ELSE 10 * DigitsValue(SubSeq(s, 1, Len(s) - 1)) + (s[Len(s)] - 54)

\* int(s) of a str: surrounding whitespace is dropped, then decimal
\* digits are required; -1 stands for ValueError (the strings of the
\* model carry no sign)
int_str(s) ==
    LET t == strip(s)
    IN IF t # << >> /\ \A i \in DOMAIN t : t[i] \in 54 .. 63
       THEN DigitsValue(t) ELSE -1

\* a validate_email that stores the address as it was given
validate_email_asis(email) == email

\* User.validate_email / User.validate_username: the value the ORM stores
validate_email(email) == strip(lower(email))
validate_username(username) == strip(lower(username))

\* Request inputs as the schemas deliver them: EmailStr keeps the case of
\* the local part, UserBase.validate_username lower-cases the username.
NoStr == << >>


-----------------------------------------------------------------------------
(* The users table *)

\* datetime.utcnow(); the service model does not advance the clock, every
\* timestamp it writes is this instant.  0 stands for NULL.
now == 1
NULL == 0

\* "no row" (scalar_one_or_none() returning None): ids start at 1
NoUser == [id |-> 0]

\* the value of the hashed_password column if the password itself were
\* written to it
StoredPlain(password) == <<"plain", 0, password>>

\* a hash that uses the same salt every time
get_password_hash_unsalted(password, salt) == <<"bcrypt", 0, password>>

\* get_password_hash: bcrypt embeds a random salt in the digest
get_password_hash(password, salt) == <<"bcrypt", salt, password>>

\* verify_password: pwd_context.verify hashes the plain password with the
\* salt embedded in the digest and compares; a value that is no bcrypt
\* digest makes it raise, which verify_password turns into False
verify_password(plain_password, hashed_password) ==
    IF hashed_password = << >> \/ hashed_password[1] # "bcrypt" THEN FALSE
    ELSE hashed_password = <<"bcrypt", hashed_password[2], plain_password>>

\* User(...) as create_user builds it, INSERTed with the next id; ver is a
\* history field counting the UPDATE statements applied to the row
NewUser(id, d, salt) ==
    [id |-> id,
     email |-> validate_email(d.email),
     username |-> validate_username(d.username),
     full_name |-> d.full_name,
     hashed_password |-> get_password_hash(d.password, salt),
     is_active |-> TRUE,
     is_verified |-> FALSE,
     is_superuser |-> FALSE,
     created_at |-> now,
     updated_at |-> now,
     email_verified_at |-> NULL,
     deleted_at |-> NULL,
     ver |-> 0]

RowIds == 1 .. Len(users)

\* SelectById without the deleted_at filter
SelectById_any(user_id) ==
    IF user_id \in RowIds THEN users[user_id] ELSE NoUser

\* select(User).where(User.id == user_id, User.deleted_at.is_(None))
SelectById(user_id) ==
    IF user_id \in RowIds /\ users[user_id].deleted_at = NULL
    THEN users[user_id] ELSE NoUser

SelectWhere(field, value) ==
    LET hits == {i \in RowIds : users[i][field] = value
                                  /\ users[i].deleted_at = NULL}
    IN IF hits = {} THEN NoUser ELSE users[CHOOSE i \in hits : TRUE]

\* SelectByEmail comparing the email as given, without lower()
SelectByEmail_exact(email) == SelectWhere("email", email)

\* select(User).where(User.email == email.lower(), deleted_at IS NULL)
SelectByEmail(email) == SelectWhere("email", lower(email))

\* select(User).where(User.username == username.lower(), deleted_at IS NULL)
SelectByUsername(username) == SelectWhere("username", lower(username))

\* a table without unique indexes
UniqueViolation_none(id, row, fields) == FALSE

\* The unique indexes ix_users_email / ix_users_username cover every row of
\* the table, soft-deleted rows included.
UniqueViolation(id, row, fields) ==
    \E i \in RowIds :
        /\ i # id
        /\ \/ "email" \in fields /\ users[i].email = row.email
           \/ "username" \in fields /\ users[i].username = row.username

\* the salts of the digests held by the store or by a running request; a
\* random bcrypt salt repeats none of them
FreshSalt ==
    LET UsedSalts ==
            {users[i].hashed_password[2] : i \in RowIds}
            \cup {proc[p].user.hashed_password[2] :
                     p \in {q \in Procs : proc[q].user # NoUser}}
    IN CHOOSE n \in 1 .. (Cardinality(UsedSalts) + 1) : n \notin UsedSalts

-----------------------------------------------------------------------------
(* CacheManager *)

NoEntry == [enc |-> "nil"]
Miss == NoUser          \* get()'s default (None)

\* a set that stores the value without expiry
Serialize_persist(value, ttl) == [enc |-> "pickle", val |-> value, ttl |-> -1]

\* CacheManager.set serialization: a User is neither dict/list/tuple nor a
\* scalar, so it is pickled
Serialize(value, ttl) == [enc |-> "pickle", val |-> value, ttl |-> ttl]

\* Deserialize with a pickle that json.loads hands on to pickle.loads
Deserialize_unpickles(entry) == entry.val

\* CacheManager.get deserialization of a stored value:
\*   json.loads(value); on JSONDecodeError/TypeError pickle.loads(value);
\*   on PickleError/TypeError the raw value.
\* A pickle starts with the PROTO opcode 0x80, which is not valid UTF-8:
\* json.loads raises UnicodeDecodeError, a ValueError that is neither a
\* JSONDecodeError nor a TypeError, so the inner handler does not take it
\* and the outer "except Exception" returns the default.  With
\* redis_decode_responses (the default) the client's own decoding of the
\* reply raises the same error inside self._redis.get.
Deserialize(entry) ==
    CASE entry.enc = "json" -> entry.val
      [] entry.enc = "pickle" -> Miss
      [] OTHER -> entry.val

\* CacheManager.get(key): fail = the Redis call raises
CacheManager_get(id, fail) ==
    IF ~enable_cache THEN Miss
    ELSE IF redis = "None" \/ fail THEN Miss
    ELSE IF cache[id] = NoEntry THEN Miss
    ELSE Deserialize(cache[id])

\* CacheManager.set(key, value, ttl): the cache after the call
CacheManager_set(id, value, ttl, fail) ==
    IF ~enable_cache THEN cache
    ELSE IF redis = "None" \/ fail THEN cache
    ELSE [cache EXCEPT ![id] = Serialize(value, ttl)]

\* CacheManager.delete(key): the cache after the call
CacheManager_delete(id, fail) ==
    IF ~enable_cache THEN cache
    ELSE IF redis = "None" \/ fail THEN cache
    ELSE [cache EXCEPT ![id] = NoEntry]

\* TTL of the user snapshots written by get_user_by_id
UserTtl == 300


-----------------------------------------------------------------------------
(* Requests of the user service *)

NoData == [email |-> NoStr, username |-> NoStr, full_name |-> "None",
           password |-> "None", is_active |-> "None"]

\* UserCreate bodies
CreateInputs ==
    {[email |-> x[1], username |-> x[2], full_name |-> "n1",
      password |-> "Pw1", is_active |-> "None"] :
        x \in { << <<1, 53>>, <<1, 1, 1>> >>,        \* "a@", "aaa"
                 << <<27, 53>>, <<2, 2, 2>> >>,       \* "A@", "bbb"
                 << <<2, 53>>, <<1, 1, 1>> >> }}      \* "b@", "aaa"

\* UserUpdate bodies: every field is optional
UpdateInputs ==
    {[NoData EXCEPT !.email = <<27, 53>>],
     [NoData EXCEPT !.email = <<2, 53>>],
     [NoData EXCEPT !.username = <<2, 2, 2>>, !.password = "Pw2"],
     [NoData EXCEPT !.full_name = "n2", !.is_active = "False"]}

NoResult == [status |-> "none", user |-> NoUser, field |-> "none",
             http |-> 0]

\* no bearer token
NoToken == [has_sub |-> FALSE, sub |-> NoStr, exp |-> 0, sig |-> << >>]

Idle == [op |-> "idle", pc |-> "idle", id |-> 0, data |-> NoData,
         user |-> NoUser, dirty |-> {}, res |-> NoResult,
         floor |-> 0, sawStale |-> FALSE, readDeleted |-> FALSE, committed |-> FALSE,
         cver |-> 0, invalidated |-> FALSE, lostRace |-> FALSE,
         alreadyDeleted |-> FALSE,
         route |-> "none", sub |-> 0, caller |-> NoUser,
         reply |-> NoEntry, decoded |-> "none", token |-> NoToken,
         at |-> 0, issuedFor |-> 0, altered |-> FALSE, input |-> NoData,
         skip |-> 0, limit |-> 0, total |-> 0, items |-> << >>,
         prev |-> "none", digests |-> << >>, digest |-> << >>]

\* results of the service methods
Returned(user) == [NoResult EXCEPT !.status = "user", !.user = user]
ReturnedNone == [NoResult EXCEPT !.status = "None"]
ReturnedBool(b) == [NoResult EXCEPT !.status = IF b THEN "True" ELSE "False"]
\* raise ValueError("Email ... is already registered" / "Username ...")
RaisedValueError(field) ==
    [NoResult EXCEPT !.status = "ValueError", !.field = field]
\* sqlalchemy.exc.IntegrityError raised by the flush of commit()
RaisedIntegrityError == [NoResult EXCEPT !.status = "IntegrityError"]
\* any other store failure raised by commit()
RaisedStoreError == [NoResult EXCEPT !.status = "StoreError"]

\* routes/api.py update_user: None becomes 404, ValueError 400, any other
\* exception reaches main.global_exception_handler and becomes 500
update_user_route(res) ==
    [res EXCEPT !.http = CASE res.status = "user" -> 200
                           [] res.status = "None" -> 404
                           [] res.status = "ValueError" -> 400
                           [] OTHER -> 500]

\* routes/api.py delete_user: True is 204, False becomes 404
delete_user_route(res) ==
    [res EXCEPT !.http = CASE res.status = "True" -> 204
                           [] res.status = "False" -> 404
                           [] OTHER -> 500]

\* the answer of a service method as the route that called it hands it on;
\* an HTTPException raised by a dependency or by the route keeps its code
Respond(route, res) ==
    IF res.http # 0 THEN res
    ELSE CASE route = "PUT" -> update_user_route(res)
           [] route = "DELETE" -> delete_user_route(res)
           [] OTHER -> res

Done(r, res) == [r EXCEPT !.pc = "done", !.res = Respond(r.route, res)]

Step(p, r) == proc' = [proc EXCEPT ![p] = r]


-----------------------------------------------------------------------------
(* UserService: synchronous code between two awaits *)

\* user.<field> = value on a loaded object: the attribute is written by the
\* next flush only if the value differs from the loaded one
Assign(r, field, value) ==
    IF r.user[field] = value THEN r
    ELSE [r EXCEPT !.user[field] = value, !.dirty = @ \cup {field}]

\* a timestamp attribute set to utcnow() always differs from the loaded one
AssignNow(r, field) ==
    [r EXCEPT !.user[field] = now, !.dirty = @ \cup {field}]

\* update_user, "Check username uniqueness" (the condition of the if)
UpdateFromUsername(r) ==
    IF r.data.username # NoStr /\ r.data.username # r.user.username
    THEN [r EXCEPT !.pc = "upd_username"]
    ELSE [r EXCEPT !.pc = "commit"]

\* update_user, "Check email uniqueness" (the condition of the if)
UpdateFromEmail(r) ==
    IF r.data.email # NoStr /\ r.data.email # r.user.email
    THEN [r EXCEPT !.pc = "upd_email"]
    ELSE UpdateFromUsername(r)

\* an update that also writes the fields the body leaves unset
UpdateOtherFields_unset(r, salt) ==
    Assign(Assign(r, "full_name", r.data.full_name),
           "is_active", r.data.is_active = "True")

\* update_user, "Update other fields"
\* an update that also raises the superuser flag
UpdateOtherFields_superuser(r, salt) == Assign(r, "is_superuser", TRUE)

UpdateOtherFields(r, salt) ==
    LET r1 == IF r.data.full_name # "None"
              THEN Assign(r, "full_name", r.data.full_name) ELSE r
        r2 == IF r.data.password # "None"
              THEN Assign(r1, "hashed_password",
                          get_password_hash(r.data.password, salt))
              ELSE r1
    IN IF r.data.is_active # "None"
       THEN Assign(r2, "is_active", r.data.is_active = "True") ELSE r2

\* a verify_email that only stamps the time
VerifyEmail_stamp(r) == AssignNow(r, "email_verified_at")

\* User.verify_email()
VerifyEmail(r) == Assign(AssignNow(r, "email_verified_at"), "is_verified", TRUE)

\* what the caller of get_user_by_id does with its answer, up to its next
\* await; deletedInStore records whether the row of the answer carried a
\* deletion timestamp in the store when the answer was obtained
AfterGet(r0, user, deletedInStore) ==
    LET r == [r0 EXCEPT !.user = user, !.readDeleted = deletedInStore]
    IN CASE r.op = "get_user_by_id" ->
              Done(r, IF user = NoUser THEN ReturnedNone ELSE Returned(user))
         [] r.op = "update_user" ->
              IF user = NoUser THEN Done(r, ReturnedNone)
              ELSE UpdateFromEmail(r)
         [] r.op = "delete_user" ->
              IF user = NoUser THEN Done(r, ReturnedBool(FALSE))
              \* SoftDeleteMixin.soft_delete(); user.is_active = False
              ELSE [Assign(AssignNow(r, "deleted_at"), "is_active", FALSE)
                       EXCEPT !.pc = "commit"]
         [] OTHER -> \* verify_user_email
              IF user = NoUser THEN Done(r, ReturnedNone)
              ELSE [VerifyEmail(r) EXCEPT !.pc = "commit"]

\* the UPDATE statement of a flush: the changed columns, and updated_at by
\* its onupdate default
Flush(row, obj, dirty) ==
    [f \in DOMAIN row |->
        IF f \in dirty THEN obj[f]
        ELSE IF f = "updated_at" THEN now
        ELSE IF f = "ver" THEN row.ver + 1
        ELSE row[f]]

StoreDeleted(id) == id \in RowIds /\ users[id].deleted_at # NULL

Max(a, b) == IF a > b THEN a ELSE b

RECURSIVE SumVer(_)
SumVer(n) == IF n = 0 THEN 0 ELSE users[n].ver + SumVer(n - 1)

\* number of UPDATE statements applied so far
Updates == SumVer(Len(users))

Mutations == {"update_user", "delete_user", "verify_user_email"}


-----------------------------------------------------------------------------
(* UserService.get_user_by_id *)

\* cached_user = await cache_manager.get(cache_key); if cached_user: return
get_user_by_id_cache(p) ==
    /\ proc[p].pc = "gid_cache"
    /\ \E fail \in BOOLEAN :
        LET cached_user == CacheManager_get(proc[p].id, fail)
            \* sawStale: Redis holds a snapshot taken before version floor
            r == [proc[p] EXCEPT !.sawStale =
                     /\ cache[proc[p].id] # NoEntry
                     /\ cache[proc[p].id].val.ver < proc[p].floor]
        IN IF cached_user # Miss
           THEN Step(p, AfterGet(r, cached_user, StoreDeleted(r.id)))
           ELSE Step(p, [r EXCEPT !.pc = "gid_db"])
    /\ UNCHANGED <<users, cache, enable_cache, redis, retVer,
                   rlVars>>

\* user = (await self.db.execute(select ...)).scalar_one_or_none()
get_user_by_id_db(p) ==
    /\ proc[p].pc = "gid_db"
    /\ LET user == SelectById(proc[p].id)
       IN IF user # NoUser
          THEN Step(p, [proc[p] EXCEPT !.pc = "gid_set", !.user = user,
                            !.readDeleted = StoreDeleted(proc[p].id)])
          ELSE Step(p, AfterGet(proc[p], NoUser, FALSE))
    /\ UNCHANGED <<users, cache, enable_cache, redis, retVer,
                   rlVars>>

\* await cache_manager.set(cache_key, user, ttl=300); return user
get_user_by_id_set(p) ==
    /\ proc[p].pc = "gid_set"
    /\ \E fail \in BOOLEAN :
        cache' = CacheManager_set(proc[p].id, proc[p].user, UserTtl, fail)
    /\ Step(p, AfterGet(proc[p], proc[p].user, proc[p].readDeleted))
    /\ UNCHANGED <<users, enable_cache, redis, retVer,
                   rlVars>>

-----------------------------------------------------------------------------
(* UserService.get_user_by_email / get_user_by_username *)

get_user_by_email(p) ==
    /\ proc[p].pc = "by_email"
    /\ LET user == SelectByEmail(proc[p].data.email)
       IN Step(p, Done([proc[p] EXCEPT !.user = user,
                           !.readDeleted = StoreDeleted(user.id)],
                       IF user = NoUser THEN ReturnedNone
                       ELSE Returned(user)))
    /\ UNCHANGED <<users, cache, enable_cache, redis, retVer,
                   rlVars>>

get_user_by_username(p) ==
    /\ proc[p].pc = "by_username"
    /\ LET user == SelectByUsername(proc[p].data.username)
       IN Step(p, Done([proc[p] EXCEPT !.user = user,
                           !.readDeleted = StoreDeleted(user.id)],
                       IF user = NoUser THEN ReturnedNone
                       ELSE Returned(user)))
    /\ UNCHANGED <<users, cache, enable_cache, redis, retVer,
                   rlVars>>


-----------------------------------------------------------------------------
(* UserService.update_user / delete_user / verify_user_email *)

\* existing_user = await self.get_user_by_email(user_data.email)
update_user_email(p) ==
    /\ proc[p].pc = "upd_email"
    /\ LET r == proc[p]
       IN IF SelectByEmail(r.data.email) # NoUser
          THEN Step(p, Done(r, RaisedValueError("email")))
          ELSE Step(p, UpdateFromUsername(
                          Assign(r, "email", validate_email(r.data.email))))
    /\ UNCHANGED <<users, cache, enable_cache, redis, retVer,
                   rlVars>>

\* existing_user = await self.get_user_by_username(user_data.username)
update_user_username(p) ==
    /\ proc[p].pc = "upd_username"
    /\ LET r == proc[p]
       IN IF SelectByUsername(r.data.username) # NoUser
          THEN Step(p, Done(r, RaisedValueError("username")))
          ELSE Step(p, [Assign(r, "username",
                               validate_username(r.data.username))
                           EXCEPT !.pc = "commit"])
    /\ UNCHANGED <<users, cache, enable_cache, redis, retVer,
                   rlVars>>

\* a failed commit whose UPDATE stays in the table
RolledBack_not(id, obj, dirty) ==
    [users EXCEPT ![id] = Flush(users[id], obj, dirty)]

\* get_db: except Exception: await session.rollback(); raise.  The table
\* after a failed commit is the table before the transaction.
RolledBack(id, obj, dirty) == users

\* commit() raising inside a method that invalidates in a finally clause
CommitFailed_invalidates(r, res) == [r EXCEPT !.pc = "invalidate", !.res = res]

\* commit() raising: nothing in the service method catches it, the
\* exception leaves the method
CommitFailed(r, res) == Done(r, res)

\* where a mutating method goes after a successful commit
AfterCommit(r) ==
    IF r.op = "delete_user" THEN [r EXCEPT !.pc = "invalidate"]
    ELSE [r EXCEPT !.pc = "refresh"]

\* await self.db.commit() of update_user, delete_user and verify_user_email
\* (for update_user preceded by "Update other fields").  The flush issues
\* the UPDATE; a unique index violation raises IntegrityError, any other
\* store failure raises too; an exception leaves the method and get_db
\* rolls the transaction back.
commit(p) ==
    /\ proc[p].pc = "commit"
    /\ \E fail \in BOOLEAN, salt \in {FreshSalt} :
        LET r == IF proc[p].op = "update_user"
                 THEN UpdateOtherFields(proc[p], salt) ELSE proc[p]
            id == r.id
        IN IF fail
           THEN /\ Step(p, CommitFailed(r, RaisedStoreError))
                /\ users' = RolledBack(id, r.user, r.dirty)
           ELSE IF r.dirty = {}
           THEN /\ Step(p, AfterCommit([r EXCEPT !.committed = TRUE]))
                /\ users' = users
           ELSE IF UniqueViolation(id, r.user, r.dirty)
           THEN /\ Step(p, CommitFailed(r, RaisedIntegrityError))
                /\ users' = RolledBack(id, r.user, r.dirty)
           ELSE /\ users' = [users EXCEPT
                               ![id] = Flush(users[id], r.user, r.dirty)]
                /\ Step(p, AfterCommit([r EXCEPT !.committed = TRUE,
                                           !.cver = users[id].ver + 1,
                                           !.alreadyDeleted =
                                               StoreDeleted(id)]))
    /\ UNCHANGED <<cache, enable_cache, redis, retVer,
                   rlVars>>

\* await self.db.refresh(user)
refresh(p) ==
    /\ proc[p].pc = "refresh"
    /\ Step(p, [proc[p] EXCEPT !.pc = "invalidate",
                               !.user = users[proc[p].id]])
    /\ UNCHANGED <<users, cache, enable_cache, redis, retVer,
                   rlVars>>

\* an invalidation whose backend error reaches the caller
invalidate_raises(p) ==
    /\ proc[p].pc = "invalidate"
    /\ \E fail \in BOOLEAN :
        /\ cache' = CacheManager_delete(proc[p].id, fail)
        /\ Step(p, Done([proc[p] EXCEPT !.invalidated = TRUE],
                        IF fail \/ redis = "None" THEN RaisedStoreError
                        ELSE IF proc[p].op = "delete_user"
                        THEN ReturnedBool(TRUE)
                        ELSE Returned(proc[p].user)))
    /\ UNCHANGED <<users, enable_cache, redis, retVer, rlVars>>

\* await cache_manager.delete(cache_key); return user / return True
invalidate(p) ==
    /\ proc[p].pc = "invalidate"
    /\ LET r == [proc[p] EXCEPT !.invalidated = TRUE]
           id == r.id
       IN /\ \E fail \in BOOLEAN : cache' = CacheManager_delete(id, fail)
          /\ Step(p, Done(r, IF r.op = "delete_user" THEN ReturnedBool(TRUE)
                             ELSE Returned(r.user)))
          /\ retVer' = IF r.op = "update_user" /\ r.cver > 0
                       THEN [retVer EXCEPT ![id] = Max(@, r.cver)]
                       ELSE retVer
    /\ UNCHANGED <<users, enable_cache, redis, rlVars>>


-----------------------------------------------------------------------------
(* UserService.create_user behind the POST /users route *)

\* routes/api.py create_user: ValueError becomes 400; any other exception
\* reaches main.global_exception_handler and becomes 500
create_user_route(res) ==
    [res EXCEPT !.http = CASE res.status = "user" -> 201
                           [] res.status = "ValueError" -> 400
                           [] OTHER -> 500]

\* existing_user = await self.get_user_by_email(user_data.email)
create_user_email(p) ==
    /\ proc[p].pc = "cr_email"
    /\ IF SelectByEmail(proc[p].data.email) # NoUser
       THEN Step(p, Done(proc[p],
                         create_user_route(RaisedValueError("email"))))
       ELSE Step(p, [proc[p] EXCEPT !.pc = "cr_username"])
    /\ UNCHANGED <<users, cache, enable_cache, redis, retVer,
                   rlVars>>

\* existing_user = await self.get_user_by_username(user_data.username)
create_user_username(p) ==
    /\ proc[p].pc = "cr_username"
    /\ IF SelectByUsername(proc[p].data.username) # NoUser
       THEN Step(p, Done(proc[p],
                         create_user_route(RaisedValueError("username"))))
       ELSE Step(p, [proc[p] EXCEPT !.pc = "cr_commit"])
    /\ UNCHANGED <<users, cache, enable_cache, redis, retVer,
                   rlVars>>

\* hash, User(...), self.db.add(user); await self.db.commit(): the INSERT
create_user_commit(p) ==
    /\ proc[p].pc = "cr_commit"
    /\ \E fail \in BOOLEAN, salt \in {FreshSalt} :
        LET r == proc[p]
            user == NewUser(Len(users) + 1, r.data, salt)
        IN IF fail
           THEN /\ Step(p, Done(r, create_user_route(RaisedStoreError)))
                /\ users' = users
           ELSE IF UniqueViolation(user.id, user, {"email", "username"})
           THEN /\ Step(p, Done([r EXCEPT !.lostRace = TRUE],
                                create_user_route(RaisedIntegrityError)))
                /\ users' = users
           ELSE /\ users' = Append(users, user)
                /\ Step(p, [r EXCEPT !.pc = "cr_refresh", !.id = user.id,
                               !.user = user, !.committed = TRUE])
    /\ UNCHANGED <<cache, enable_cache, redis, retVer,
                   rlVars>>

\* a create_user that writes the new user to the cache before returning
create_user_refresh_caches(p) ==
    /\ proc[p].pc = "cr_refresh"
    /\ Step(p, Done([proc[p] EXCEPT !.user = users[proc[p].id]],
                    create_user_route(Returned(users[proc[p].id]))))
    /\ \E fail \in BOOLEAN :
        cache' = IF proc[p].id \in Ids
                 THEN CacheManager_set(proc[p].id, users[proc[p].id],
                                       UserTtl, fail)
                 ELSE cache
    /\ UNCHANGED <<users, enable_cache, redis, retVer, rlVars>>

\* await self.db.refresh(user); return user
create_user_refresh(p) ==
    /\ proc[p].pc = "cr_refresh"
    /\ Step(p, Done([proc[p] EXCEPT !.user = users[proc[p].id]],
                    create_user_route(Returned(users[proc[p].id]))))
    /\ UNCHANGED <<users, cache, enable_cache, redis, retVer,
                   rlVars>>

-----------------------------------------------------------------------------
(* utils/auth.py *)

jwt_secret_key == "secret"

\* settings.jwt_access_token_expire_minutes; the unit of time of the
\* tokens is the minute
jwt_access_token_expire_minutes == 30

\* The signature of a token: the HMAC of its claims under a key, which no
\* other key and no other claims produce.
Sign(key, has_sub, sub, exp) == <<key, has_sub, sub, exp>>

\* jwt.encode(claims, key): a bearer token is its claims (an optional
\* "sub", a str, and "exp") and the signature
Encode(has_sub, sub, exp, key) ==
    [has_sub |-> has_sub, sub |-> sub, exp |-> exp,
     sig |-> Sign(key, has_sub, sub, exp)]

\* create_access_token(data, expires_delta) called at time at; data is
\* the "sub" claim; an expires_delta of None or of zero is falsy and
\* gives the configured lifetime
create_access_token(sub, expires_delta, at) ==
    LET expire == IF expires_delta # 0 THEN at + expires_delta
                  ELSE at + jwt_access_token_expire_minutes
    IN Encode(TRUE, sub, expire, jwt_secret_key)

\* a jwt.decode that does not look at "exp"
jwt_decode_any_exp(token, key, at) ==
    IF token.sig # Sign(key, token.has_sub, token.sub, token.exp)
    THEN "JWTError" ELSE "payload"

\* jwt.decode(token, key) at time at: JWTError on a signature that is not
\* the key's signature of the claims, and on an expiry before at
jwt_decode(token, key, at) ==
    IF token.sig # Sign(key, token.has_sub, token.sub, token.exp)
    THEN "JWTError"
    ELSE IF token.exp < at THEN "JWTError"
    ELSE "payload"

\* decode_access_token at time at: TokenData(user_id) ("claims"), None
\* ("invalid"), or the ValueError of int(user_id), which the handler of
\* JWTError does not catch
decode_access_token_at(token, at) ==
    IF jwt_decode(token, jwt_secret_key, at) = "JWTError"
    THEN [status |-> "invalid", user_id |-> 0]
    ELSE IF ~token.has_sub THEN [status |-> "invalid", user_id |-> 0]
    ELSE IF int_str(token.sub) = -1
    THEN [status |-> "ValueError", user_id |-> 0]
    ELSE [status |-> "claims", user_id |-> int_str(token.sub)]

decode_access_token(token) == decode_access_token_at(token, now)

\* the bearer tokens sent to the service: with and without a subject, the
\* subject an id or not a number, signed with the key or not, expired or
\* not
TokensOf(ids) ==
    {Encode(h, sub, exp, key) :
        h \in BOOLEAN,
        sub \in {str_int(id) : id \in ids} \cup {<<1>>},
        exp \in {now - 1, now + 1},
        key \in {jwt_secret_key, "forged"}}

\* an exception of a dependency reaches main.global_exception_handler
InternalError(status) ==
    [NoResult EXCEPT !.status = status, !.field = "sub", !.http = 500]

Unauthenticated == [NoResult EXCEPT !.status = "Unauthenticated", !.http = 401]

\* get_current_user_db looking the subject up without the deleted_at filter
get_current_user_db_any(p) ==
    /\ proc[p].pc = "auth_db"
    /\ LET user == IF proc[p].id \in RowIds THEN users[proc[p].id] ELSE NoUser
       IN Step(p, Done([proc[p] EXCEPT !.user = user,
                           !.readDeleted = StoreDeleted(proc[p].id)],
                       IF user = NoUser THEN Unauthenticated
                       ELSE Returned(user)))
    /\ UNCHANGED <<users, cache, enable_cache, redis, retVer, rlVars>>

\* get_current_user: select(User).where(id == token_data.user_id,
\* deleted_at IS NULL); raise 401 if None
get_current_user_db(p) ==
    /\ proc[p].pc = "auth_db"
    /\ LET user == SelectById(proc[p].id)
       IN Step(p, Done([proc[p] EXCEPT !.user = user,
                           !.readDeleted = StoreDeleted(proc[p].id)],
                       IF user = NoUser THEN Unauthenticated
                       ELSE Returned(user)))
    /\ UNCHANGED <<users, cache, enable_cache, redis, retVer,
                   rlVars>>


\* HTTPException(status_code=403, detail=...)
Forbidden(detail) ==
    [NoResult EXCEPT !.status = "Forbidden", !.field = detail, !.http = 403]

\* get_current_user after the select: raise 401 if user is None
get_current_user(user) ==
    IF user = NoUser THEN Unauthenticated ELSE Returned(user)

\* get_current_active_user(current_user = Depends(get_current_user)): a
\* dependency that raised ends the request, the dependant is not called
get_current_active_user(current_user) ==
    IF current_user.status # "user" THEN current_user
    ELSE IF ~current_user.user.is_active THEN Forbidden("Inactive user")
    ELSE current_user

\* get_current_superuser(current_user = Depends(get_current_active_user))
get_current_superuser(current_user) ==
    IF current_user.status # "user" THEN current_user
    ELSE IF ~current_user.user.is_superuser
    THEN Forbidden("Not enough privileges")
    ELSE current_user

\* a PUT route that lets every active caller through
update_user_allowed_any(current_user, user_id) == TRUE

\* routes/api.py update_user, "Check if user can update this account"
update_user_allowed(current_user, user_id) ==
    ~(current_user.id # user_id /\ ~current_user.is_superuser)

\* routes/api.py delete_user, "Only superusers can delete users"
delete_user_allowed(current_user) == current_user.is_superuser

\* The dependencies of a route and the route's own check, up to the first
\* await of the service method: get_current_user's select, then
\* get_current_active_user, then get_current_superuser or the check of the
\* PUT / DELETE route.
authorize(p) ==
    /\ proc[p].pc = "rt_auth"
    /\ LET user == SelectById(proc[p].sub)
           r == [proc[p] EXCEPT !.caller = user,
                                !.readDeleted = StoreDeleted(proc[p].sub)]
           active == get_current_active_user(get_current_user(user))
       IN IF r.route = "superuser"
          THEN Step(p, Done(r, get_current_superuser(active)))
          ELSE IF active.status # "user" THEN Step(p, Done(r, active))
          ELSE IF r.route = "PUT"
          THEN IF update_user_allowed(user, r.id)
               THEN Step(p, [r EXCEPT !.op = "update_user",
                                      !.pc = "gid_cache"])
               ELSE Step(p, Done(r, Forbidden(
                                "Not authorized to update this user")))
          ELSE IF delete_user_allowed(user)
               THEN Step(p, [r EXCEPT !.op = "delete_user",
                                      !.pc = "gid_cache"])
               ELSE Step(p, Done(r, Forbidden(
                                "Only superusers can delete users")))
    /\ UNCHANGED <<users, cache, enable_cache, redis, retVer, rlVars>>

-----------------------------------------------------------------------------
(* Requests arriving and returning; the Redis connection; key expiry *)

\* Process p can take the next request.  The processes are interchangeable:
\* when both are free the request goes to the first one.
Free(p) ==
    /\ proc[p].pc = "idle"
    /\ \A q \in Procs : (q # p /\ proc[q].pc = "idle") => (p = "p1" /\ q = "p2")

Begin(op, pc, id, data) ==
    [Idle EXCEPT !.op = op, !.pc = pc, !.id = id, !.data = data]

\* a call of UserService.get_user_by_id(user_id)
Start_get_user_by_id(p) ==
    /\ Free(p)
    /\ \E id \in Ids :
        Step(p, [Begin("get_user_by_id", "gid_cache", id, NoData)
                    EXCEPT !.floor = retVer[id]])
    /\ UNCHANGED <<users, cache, enable_cache, redis, retVer,
                   rlVars>>

\* a call of get_user_by_email(email) or get_user_by_username(username)
Start_lookup(p) ==
    /\ Free(p)
    /\ \/ \E e \in { <<27, 53>>, <<2, 53>> } :            \* "A@" "b@"
            Step(p, Begin("get_user_by_email", "by_email", 0,
                          [NoData EXCEPT !.email = e]))
       \/ \E u \in { <<1, 1, 1>> } :                     \* "aaa"
            Step(p, Begin("get_user_by_username", "by_username", 0,
                          [NoData EXCEPT !.username = u]))
    /\ UNCHANGED <<users, cache, enable_cache, redis, retVer,
                   rlVars>>

\* a call of update_user / verify_user_email: each starts with
\* user = await self.get_user_by_id(user_id)
Start_mutation(p) ==
    /\ Free(p)
    /\ Updates + Cardinality({q \in Procs : proc[q].op \in Mutations})
         < MaxWrites
       \/ \A id \in Ids : StoreDeleted(id)
    /\ \E id \in Ids :
        \/ \E d \in UpdateInputs :
            Step(p, Begin("update_user", "gid_cache", id, d))
        \/ Step(p, Begin("verify_user_email", "gid_cache", id, NoData))
    /\ UNCHANGED <<users, cache, enable_cache, redis, retVer,
                   rlVars>>

\* a call of delete_user: it starts with
\* user = await self.get_user_by_id(user_id).  A delete ends the life of
\* its row, so a delete in flight does not count against another delete.
Start_delete_user(p) ==
    /\ Free(p)
    /\ Updates + Cardinality({q \in Procs :
                     proc[q].op \in Mutations \ {"delete_user"}}) < MaxWrites
       \/ \A id \in Ids : StoreDeleted(id)
    /\ \E id \in Ids : Step(p, Begin("delete_user", "gid_cache", id, NoData))
    /\ UNCHANGED <<users, cache, enable_cache, redis, retVer,
                   rlVars>>

\* a call of update_user(user_id, UserUpdate(is_active=...)): an account is
\* deactivated or reactivated
Start_update_is_active(p) ==
    /\ Free(p)
    /\ Updates + Cardinality({q \in Procs :
                     proc[q].op \in Mutations \ {"delete_user"}}) < MaxWrites
       \/ \A id \in Ids : StoreDeleted(id)
    /\ \E id \in Ids, b \in {"True", "False"} :
        Step(p, Begin("update_user", "gid_cache", id,
                      [NoData EXCEPT !.is_active = b]))
    /\ UNCHANGED <<users, cache, enable_cache, redis, retVer,
                   rlVars>>

\* POST /users
Start_create_user(p) ==
    /\ Free(p)
    /\ Len(users) + Cardinality({q \in Procs : proc[q].op = "create_user"})
           < MaxUsers
    /\ \E d \in CreateInputs : Step(p, Begin("create_user", "cr_email", 0, d))
    /\ UNCHANGED <<users, cache, enable_cache, redis, retVer,
                   rlVars>>

\* get_current_user(credentials): decode the token, raise 401 if invalid
Start_get_current_user(p) ==
    /\ Free(p)
    /\ \E token \in TokensOf(Ids) :
        LET token_data == decode_access_token(token)
            r == [Begin("get_current_user", "auth_db", token_data.user_id,
                        NoData) EXCEPT !.decoded = token_data.status]
        IN CASE token_data.status = "claims" -> Step(p, r)
             [] token_data.status = "invalid" ->
                    Step(p, Done(r, Unauthenticated))
             [] OTHER -> Step(p, Done(r, InternalError(token_data.status)))
    /\ UNCHANGED <<users, cache, enable_cache, redis, retVer,
                   rlVars>>

\* a request with a bearer token enters a route: get_current_user decodes
\* the token and raises 401 if it is invalid
BeginRoute(route, token, id, data) ==
    LET token_data == decode_access_token(token)
        r == [Begin("authorize", "rt_auth", id, data) EXCEPT
                 !.route = route, !.sub = token_data.user_id,
                 !.decoded = token_data.status]
    IN CASE token_data.status = "claims" -> r
         [] token_data.status = "invalid" -> Done(r, Unauthenticated)
         [] OTHER -> Done(r, InternalError(token_data.status))

\* PUT /users/{user_id} and DELETE /users/{user_id}
Start_route(p) ==
    /\ Free(p)
    /\ Updates + Cardinality({q \in Procs :
                     proc[q].route \in {"PUT", "DELETE"}}) < MaxWrites
       \/ \A id \in Ids : StoreDeleted(id)
    \* bearer tokens of the users of the table and of an id that no row has
    /\ \E token \in TokensOf(1 .. 3), id \in Ids :
        \/ \E d \in UpdateInputs : Step(p, BeginRoute("PUT", token, id, d))
        \/ Step(p, BeginRoute("DELETE", token, id, NoData))
    /\ UNCHANGED <<users, cache, enable_cache, redis, retVer, rlVars>>

\* a request to an endpoint that depends on get_current_superuser
Start_get_current_superuser(p) ==
    /\ Free(p)
    /\ \E token \in TokensOf(1 .. 3) :
        Step(p, BeginRoute("superuser", token, 0, NoData))
    /\ UNCHANGED <<users, cache, enable_cache, redis, retVer, rlVars>>

\* a call of CacheManager.get(key) by any user of the cache
Start_cache_get(p) ==
    /\ Free(p)
    /\ \E id \in Ids : Step(p, Begin("cache_get", "cg_get", id, NoData))
    /\ UNCHANGED <<users, cache, enable_cache, redis, retVer, rlVars>>

\* CacheManager.get: value = await self._redis.get(key) and the
\* deserialization; reply is what the Redis call gave ("error": it raised,
\* "nil": no such key, "skipped": caching is disabled and Redis not asked)
cache_get(p) ==
    /\ proc[p].pc = "cg_get"
    /\ \E fail \in BOOLEAN :
        LET id == proc[p].id
            value == CacheManager_get(id, fail)
            reply == IF ~enable_cache THEN [enc |-> "skipped"]
                     ELSE IF redis = "None" \/ fail THEN [enc |-> "error"]
                     ELSE cache[id]
        IN Step(p, Done([proc[p] EXCEPT !.reply = reply],
                        IF value = Miss THEN ReturnedNone
                        ELSE [NoResult EXCEPT !.status = "value",
                                              !.user = value]))
    /\ UNCHANGED <<users, cache, enable_cache, redis, retVer, rlVars>>

\* the caller of create_user reads the new user back: get_user_by_id of
\* the id that create_user returned; input is what create_user was given
Start_get_created(p) ==
    /\ proc[p].op = "create_user"
    /\ proc[p].pc = "done"
    /\ proc[p].res.status = "user"
    /\ proc[p].res.user.id \in Ids
    /\ LET id == proc[p].res.user.id
       IN Step(p, [Begin("get_user_by_id", "gid_cache", id, NoData)
                      EXCEPT !.floor = retVer[id],
                             !.input = proc[p].data])
    /\ UNCHANGED <<users, cache, enable_cache, redis, retVer, rlVars>>

\* the caller of verify_user_email reads the user again: get_user_by_id
\* of the same id after verify_user_email has returned the user
Start_get_verified(p) ==
    /\ proc[p].op = "verify_user_email"
    /\ proc[p].pc = "done"
    /\ proc[p].res.status = "user"
    /\ Step(p, [Begin("get_user_by_id", "gid_cache", proc[p].id, NoData)
                   EXCEPT !.floor = retVer[proc[p].id],
                          !.prev = "verify_user_email"])
    /\ UNCHANGED <<users, cache, enable_cache, redis, retVer, rlVars>>

\* the passwords that are hashed and tried
Passwords == {"Pw1", "Pw2"}

\* the salts of the digests that the callers hold; a random salt repeats
\* none of them
RandomSalt ==
    LET DigestSalts ==
            UNION {{proc[q].digests[k][2] : k \in DOMAIN proc[q].digests} :
                      q \in Procs}
    IN CHOOSE n \in 1 .. (Cardinality(DigestSalts) + 1) : n \notin DigestSalts

\* get_password_hash(P) is called
Start_get_password_hash(p) ==
    /\ Free(p)
    /\ \E P \in Passwords :
        Step(p, [Begin("get_password_hash", "pw_held", 0,
                       [NoData EXCEPT !.password = P])
                    EXCEPT !.digests = <<get_password_hash(P, RandomSalt)>>])
    /\ UNCHANGED <<users, cache, enable_cache, redis, retVer, rlVars>>

\* get_password_hash(P) is called once more for the same password
get_password_hash_again(p) ==
    /\ proc[p].pc = "pw_held"
    /\ Len(proc[p].digests) = 1
    /\ Step(p, [proc[p] EXCEPT
                   !.digests = Append(@, get_password_hash(
                                             proc[p].data.password,
                                             RandomSalt))])
    /\ UNCHANGED <<users, cache, enable_cache, redis, retVer, rlVars>>

\* verify_password(plain, digest) for one of the digests, or for a value
\* that is no digest
check_password(p) ==
    /\ proc[p].pc = "pw_held"
    /\ \E plain \in Passwords,
          digest \in {proc[p].digests[k] : k \in DOMAIN proc[p].digests}
                        \cup {StoredPlain(proc[p].data.password)} :
        Step(p, Done([proc[p] EXCEPT !.digest = digest,
                                     !.input = [NoData EXCEPT
                                                  !.password = plain]],
                     ReturnedBool(verify_password(plain, digest))))
    /\ UNCHANGED <<users, cache, enable_cache, redis, retVer, rlVars>>

\* the rows of select(User).where(User.deleted_at.is_(None)), with
\* .where(User.is_active == is_active) when the filter is given
Matching(is_active) ==
    {i \in RowIds :
        /\ users[i].deleted_at = NULL
        /\ is_active # "None" => users[i].is_active = (is_active = "True")}

\* a result set that comes back in any order
Orderings_unordered(S) ==
    {ord \in [1 .. Cardinality(S) -> S] :
        \A a, b \in 1 .. Cardinality(S) : a # b => ord[a] # ord[b]}

\* ORDER BY created_at DESC: the orders in which the database may return
\* the rows S; rows with the same created_at come in any order
Orderings(S) ==
    {ord \in [1 .. Cardinality(S) -> S] :
        /\ \A a, b \in 1 .. Cardinality(S) : a # b => ord[a] # ord[b]
        /\ \A a, b \in 1 .. Cardinality(S) :
              a < b => users[ord[a]].created_at >= users[ord[b]].created_at}

\* OFFSET skip LIMIT limit applied to the ordered rows
PageQuery(ord, skip, limit) ==
    LET rest == Len(ord) - skip
    IN [k \in 1 .. Max(0, IF rest < limit THEN rest ELSE limit) |->
           users[ord[skip + k]]]

\* get_users(skip, limit, is_active) is called
Start_get_users(p) ==
    /\ Free(p)
    /\ \E skip \in 0 .. 2, limit \in 1 .. 2,
          is_active \in {"None", "True", "False"} :
        Step(p, [Begin("get_users", "gu_count", 0,
                       [NoData EXCEPT !.is_active = is_active])
                    EXCEPT !.skip = skip, !.limit = limit])
    /\ UNCHANGED <<users, cache, enable_cache, redis, retVer, rlVars>>

\* total_result = await self.db.execute(count_query):
\* select(func.count()) over the conditions of the page query
get_users_count(p) ==
    /\ proc[p].pc = "gu_count"
    /\ Step(p, [proc[p] EXCEPT !.pc = "gu_page",
                               !.total =
                                  Cardinality(Matching(proc[p].data.is_active))])
    /\ UNCHANGED <<users, cache, enable_cache, redis, retVer, rlVars>>

\* result = await self.db.execute(query); return list(users), total
get_users_page(p) ==
    /\ proc[p].pc = "gu_page"
    /\ \E ord \in Orderings(Matching(proc[p].data.is_active)) :
        LET r == proc[p]
        IN Step(p, Done([r EXCEPT !.items = PageQuery(ord, r.skip, r.limit)],
                        [NoResult EXCEPT !.status = "page"]))
    /\ UNCHANGED <<users, cache, enable_cache, redis, retVer, rlVars>>

\* the user ids for which tokens are issued
Subjects == {1, 10}

\* minutes a bearer keeps a token before presenting it
TokenWait == 31

\* a token is issued for user id S: create_access_token({"sub": str(S)},
\* expires_delta); the bearer holds it
Start_issue(p) ==
    /\ Free(p)
    \* expires_delta in minutes: in the past, None or zero (the configured
    \* lifetime), and shorter than the configured lifetime
    /\ \E S \in Subjects, expires_delta \in {-1, 0, 1} :
        Step(p, [Begin("verify", "tok_held", 0, NoData) EXCEPT
                   !.token = create_access_token(str_int(S), expires_delta,
                                                 now),
                   !.issuedFor = S, !.at = now])
    /\ UNCHANGED <<users, cache, enable_cache, redis, retVer, rlVars>>

\* a bearer holds a token that create_access_token did not issue to it
Start_present(p) ==
    /\ Free(p)
    /\ \E token \in TokensOf(Subjects) :
        Step(p, [Begin("verify", "tok_held", 0, NoData) EXCEPT
                   !.token = token, !.at = now])
    /\ UNCHANGED <<users, cache, enable_cache, redis, retVer, rlVars>>

\* the bearer alters the subject, the expiry or the signature of the
\* token it holds; it has no key to sign the result with
tamper(p) ==
    /\ proc[p].pc = "tok_held"
    /\ ~proc[p].altered
    /\ LET token == proc[p].token
       IN \E t \in {[token EXCEPT !.sub = str_int(S)] : S \in Subjects}
                  \cup {[token EXCEPT !.has_sub = ~@],
                        [token EXCEPT !.exp = @ + TokenWait],
                        [token EXCEPT !.sig = << >>]} :
           /\ t # token
           /\ Step(p, [proc[p] EXCEPT !.token = t, !.altered = TRUE])
    /\ UNCHANGED <<users, cache, enable_cache, redis, retVer, rlVars>>

\* time passes before the token is presented
wait(p) ==
    /\ proc[p].pc = "tok_held"
    /\ proc[p].at = now
    /\ Step(p, [proc[p] EXCEPT !.at = @ + TokenWait])
    /\ UNCHANGED <<users, cache, enable_cache, redis, retVer, rlVars>>

\* decode_access_token(token) at the time the token is presented
verify(p) ==
    /\ proc[p].pc = "tok_held"
    /\ LET r == proc[p]
           token_data == decode_access_token_at(r.token, r.at)
           decoded == [r EXCEPT !.decoded = token_data.status]
       IN CASE token_data.status = "claims" ->
                  Step(p, Done(decoded,
                               [NoResult EXCEPT
                                  !.status = "claims",
                                  !.user = [id |-> token_data.user_id]]))
            [] token_data.status = "invalid" ->
                  Step(p, Done(decoded, ReturnedNone))
            [] OTHER ->
                  Step(p, Done(decoded, RaisedValueError("sub")))
    /\ UNCHANGED <<users, cache, enable_cache, redis, retVer, rlVars>>

\* the caller has received the result
Finish(p) ==
    /\ proc[p].pc = "done"
    /\ Step(p, Idle)
    /\ UNCHANGED <<users, cache, enable_cache, redis, retVer,
                   rlVars>>

\* CacheManager.connect(): pool and client are created, then ping()
connect ==
    /\ redis = "None"
    /\ redis' = "client"
    /\ UNCHANGED <<users, cache, enable_cache, proc, retVer,
                   rlVars>>

\* CacheManager.disconnect()
disconnect ==
    /\ redis = "client"
    /\ redis' = "None"
    /\ UNCHANGED <<users, cache, enable_cache, proc, retVer,
                   rlVars>>

\* Redis drops a key whose TTL has run out
ExpireUserKey ==
    /\ \E id \in Ids :
        /\ cache[id] # NoEntry
        /\ cache' = [cache EXCEPT ![id] = NoEntry]
    /\ UNCHANGED <<users, enable_cache, redis, proc, retVer,
                   rlVars>>

-----------------------------------------------------------------------------
(* RateLimitMiddleware *)

\* settings.rate_limit_per_minute, the threshold handed to the middleware
requests_per_minute == 2

\* self.window_size
window_size == 60

\* seconds by which the clock advances in one step
TickStep == 30

Clients == {"c1"}

\* a dispatch that exempts no path
startswith_health_never(path) == FALSE

startswith_health(path) == Len(path) >= 1 /\ path[1] = "/health"

\* a Redis key that does not exist: TTL answers -2; a key without expiry
\* answers -1
\* admitted is a history field: the requests that found the counter within
\* the limit, counted on the key of their window
NoCounter == [count |-> 0, ttl |-> -2, admitted |-> 0]

NoRequest == [pc |-> "idle", client |-> "none", path |-> << >>, count |-> 0,
              ttl |-> 0, outcome |-> "none", retry_after |-> 0,
              limit |-> 0, remaining |-> 0, calls |-> 0, raised |-> 0,
              failed |-> FALSE]

RlStep(p, r) == req' = [req EXCEPT ![p] = r]

\* the response of call_next reaches the client
Passed(r) == [r EXCEPT !.pc = "done", !.outcome = "passed",
                       !.calls = @ + 1]
\* call_next raised and nothing in dispatch handles it
Raised(r) == [r EXCEPT !.pc = "done", !.outcome = "error",
                       !.calls = @ + 1, !.raised = @ + 1]

\* a request enters dispatch
rl_request(p) ==
    /\ req[p].pc = "idle"
    \* request.url.path as the sequence of its pieces; "/health" followed
    \* by anything starts with "/health"
    /\ \E c \in Clients,
          path \in { <<"/health">>, <<"/health", "/ready">>,
                     <<"/api/v1", "/users">> } :
        \* counts are capped to keep the model finite
        /\ rl[c].count < requests_per_minute + 2
        /\ RlStep(p, [NoRequest EXCEPT
                        !.client = c, !.path = path,
                        !.pc = IF startswith_health(path) THEN "bypass"
                               ELSE "incr"])
    /\ UNCHANGED <<svcVars, enable_cache, redis, rl>>

\* if request.url.path.startswith("/health"): return await call_next(request)
rl_bypass(p) ==
    /\ req[p].pc = "bypass"
    /\ \E ok \in BOOLEAN :
        RlStep(p, IF ok THEN Passed(req[p]) ELSE Raised(req[p]))
    /\ UNCHANGED <<svcVars, enable_cache, redis, rl>>

\* an exception inside the try block: control goes to the except clause
Except(r) == [r EXCEPT !.pc = "except", !.failed = TRUE]

\* an increment that answers the next count and does not store it
rl_incr_lost(p) ==
    /\ req[p].pc = "incr"
    /\ LET r == req[p]
           c == r.client
       IN \E fail \in BOOLEAN :
           IF redis = "None" \/ fail
           THEN RlStep(p, Except(r)) /\ rl' = rl
           ELSE /\ rl' = [rl EXCEPT ![c] =
                            IF @.count = 0
                            THEN [count |-> 1, ttl |-> -1, admitted |-> 0]
                            ELSE @]
                /\ RlStep(p, [r EXCEPT !.count = rl[c].count + 1,
                                 !.pc = IF rl[c].count + 1 = 1 THEN "expire"
                                        ELSE "ttl"])
    /\ UNCHANGED <<svcVars, enable_cache, redis>>

\* redis = cache_manager.get_client(); current_count = await redis.incr(key)
rl_incr(p) ==
    /\ req[p].pc = "incr"
    /\ LET r == req[p]
           c == r.client
       IN \E fail \in BOOLEAN :
           IF redis = "None" \/ fail
           THEN RlStep(p, Except(r)) /\ rl' = rl
           ELSE /\ rl' = [rl EXCEPT ![c] =
                            IF @.count = 0
                            THEN [count |-> 1, ttl |-> -1, admitted |-> 0]
                            ELSE [@ EXCEPT !.count = @ + 1]]
                /\ RlStep(p, [r EXCEPT !.count = rl[c].count + 1,
                                 !.pc = IF rl[c].count + 1 = 1 THEN "expire"
                                        ELSE "ttl"])
    /\ UNCHANGED <<svcVars, enable_cache, redis>>

\* if current_count == 1: await redis.expire(key, self.window_size)
rl_expire(p) ==
    /\ req[p].pc = "expire"
    /\ LET r == req[p]
           c == r.client
       IN \E fail \in BOOLEAN :
           IF fail
           THEN RlStep(p, Except(r)) /\ rl' = rl
           ELSE /\ rl' = [rl EXCEPT ![c] =
                            IF @.count = 0 THEN @
                            ELSE [@ EXCEPT !.ttl = window_size]]
                /\ RlStep(p, [r EXCEPT !.pc = "ttl"])
    /\ UNCHANGED <<svcVars, enable_cache, redis>>

\* ttl = await redis.ttl(key); if current_count > self.requests_per_minute:
\* return the 429 response
rl_ttl(p) ==
    /\ req[p].pc = "ttl"
    /\ LET r == req[p]
           c == r.client
           ttl == rl[c].ttl
       IN \E fail \in BOOLEAN :
           IF fail THEN RlStep(p, Except(r)) /\ rl' = rl
           ELSE IF r.count > requests_per_minute
           THEN /\ RlStep(p, [r EXCEPT !.pc = "done", !.outcome = "429",
                                 !.ttl = ttl, !.retry_after = ttl,
                                 !.limit = requests_per_minute,
                                 !.remaining = 0])
                /\ rl' = rl
           ELSE /\ RlStep(p, [r EXCEPT !.pc = "call", !.ttl = ttl])
                /\ rl' = [rl EXCEPT ![c] =
                            IF @.count = 0 THEN @
                            ELSE [@ EXCEPT !.admitted = @ + 1]]
    /\ UNCHANGED <<svcVars, enable_cache, redis>>

\* response = await call_next(request); add the rate limit headers
rl_call(p) ==
    /\ req[p].pc = "call"
    /\ LET r == req[p]
           remaining == Max(0, requests_per_minute - r.count)
       IN \E ok \in BOOLEAN :
           IF ok
           THEN RlStep(p, [Passed(r) EXCEPT !.limit = requests_per_minute,
                                            !.remaining = remaining])
           ELSE RlStep(p, [r EXCEPT !.pc = "except", !.calls = @ + 1,
                              !.raised = @ + 1])
    /\ UNCHANGED <<svcVars, enable_cache, redis, rl>>

\* an except clause that answers 429 instead of calling call_next
rl_except_rejects(p) ==
    /\ req[p].pc = "except"
    /\ RlStep(p, [req[p] EXCEPT !.pc = "done", !.outcome = "429"])
    /\ UNCHANGED <<svcVars, enable_cache, redis, rl>>

\* except Exception: return await call_next(request)
rl_except(p) ==
    /\ req[p].pc = "except"
    /\ \E ok \in BOOLEAN :
        RlStep(p, IF ok THEN Passed(req[p]) ELSE Raised(req[p]))
    /\ UNCHANGED <<svcVars, enable_cache, redis, rl>>

\* the response has been sent
rl_finish(p) ==
    /\ req[p].pc = "done"
    /\ RlStep(p, NoRequest)
    /\ UNCHANGED <<svcVars, enable_cache, redis, rl>>

\* time passes; Redis drops the counters whose TTL has run out
Tick ==
    /\ \E c \in Clients : rl[c].ttl > 0
    /\ rl' = [c \in Clients |->
                IF rl[c].ttl <= 0 THEN rl[c]
                ELSE IF rl[c].ttl - TickStep <= 0 THEN NoCounter
                ELSE [rl[c] EXCEPT !.ttl = @ - TickStep]]
    /\ UNCHANGED <<svcVars, enable_cache, redis, req>>

-----------------------------------------------------------------------------
(* The user service *)

Init ==
    /\ users = << >>
    /\ cache = [id \in Ids |-> NoEntry]
    /\ enable_cache \in BOOLEAN
    /\ redis = "client"
    /\ proc = [p \in Procs |-> Idle]
    /\ retVer = [id \in Ids |-> 0]
    /\ rl = [c \in Clients |-> NoCounter]
    /\ req = [p \in Procs |-> NoRequest]

Next ==
    \/ ExpireUserKey
    \/ \E p \in Procs :
        \/ Start_get_user_by_id(p)
        \/ Start_lookup(p)
        \/ Start_mutation(p)
        \/ Start_delete_user(p)
        \/ Start_create_user(p)
        \/ Start_get_current_user(p)
        \/ get_user_by_id_cache(p)
        \/ get_user_by_id_db(p)
        \/ get_user_by_id_set(p)
        \/ get_user_by_email(p)
        \/ get_user_by_username(p)
        \/ update_user_email(p)
        \/ update_user_username(p)
        \/ commit(p)
        \/ refresh(p)
        \/ invalidate(p)
        \/ create_user_email(p)
        \/ create_user_username(p)
        \/ create_user_commit(p)
        \/ create_user_refresh(p)
        \/ get_current_user_db(p)
        \/ Finish(p)

Spec == Init /\ [][Next]_vars

\* The user service called by one caller: every call returns before the
\* next one is made
NextSeq ==
    \/ ExpireUserKey
    \/ \E p \in {"p1"} :
        \/ Start_get_user_by_id(p)
        \/ Start_lookup(p)
        \/ Start_mutation(p)
        \/ Start_delete_user(p)
        \/ Start_create_user(p)
        \/ get_user_by_id_cache(p)
        \/ get_user_by_id_db(p)
        \/ get_user_by_id_set(p)
        \/ get_user_by_email(p)
        \/ get_user_by_username(p)
        \/ update_user_email(p)
        \/ update_user_username(p)
        \/ commit(p)
        \/ refresh(p)
        \/ invalidate(p)
        \/ create_user_email(p)
        \/ create_user_username(p)
        \/ create_user_commit(p)
        \/ create_user_refresh(p)
        \/ Finish(p)

SeqSpec == Init /\ [][NextSeq]_vars

\* The methods that go to the store only (create_user, get_user_by_email,
\* get_user_by_username, get_users) next to get_user_by_id, which fills
\* the cache
NextCold ==
    \/ ExpireUserKey
    \/ \E p \in Procs :
        \/ Start_get_user_by_id(p)
        \/ Start_lookup(p)
        \/ Start_create_user(p)
        \/ Start_get_users(p)
        \/ get_user_by_id_cache(p)
        \/ get_user_by_id_db(p)
        \/ get_user_by_id_set(p)
        \/ get_user_by_email(p)
        \/ get_user_by_username(p)
        \/ create_user_email(p)
        \/ create_user_username(p)
        \/ create_user_commit(p)
        \/ create_user_refresh(p)
        \/ get_users_count(p)
        \/ get_users_page(p)
        \/ Finish(p)

ColdSpec == Init /\ [][NextCold]_vars

-----------------------------------------------------------------------------
(* CacheManager.connect / disconnect / get_client called by the lifespan   *)
(* and by the requests.  redis is self._redis: "None", or a client; a       *)
(* client is "unverified" from its creation until a ping on it has          *)
(* succeeded (the code does not tell the two apart: both are truthy).       *)

\* connect(): if self._redis: warn and return; otherwise create the pool
\* and self._redis = Redis(connection_pool=self._pool), then await the ping
Start_connect(p) ==
    /\ Free(p)
    /\ IF redis # "None"
       THEN /\ Step(p, Done(Begin("connect", "idle", 0, NoData),
                            [NoResult EXCEPT !.status = "already connected",
                                             !.field = redis]))
            /\ redis' = redis
       ELSE /\ Step(p, Begin("connect", "ping", 0, NoData))
            /\ redis' = "unverified"
    /\ UNCHANGED <<users, cache, enable_cache, retVer, rlVars>>

\* await self._redis.ping(): an unreachable server makes it raise and the
\* exception leaves connect(); nothing is assigned after the ping
connect_ping(p) ==
    /\ proc[p].pc = "ping"
    /\ \E ok \in BOOLEAN :
        IF ok
        THEN /\ Step(p, Done(proc[p],
                             [NoResult EXCEPT !.status = "connected"]))
             /\ redis' = IF redis = "unverified" THEN "client" ELSE redis
        ELSE /\ Step(p, Done(proc[p],
                             [NoResult EXCEPT !.status = "ConnectionError"]))
             /\ redis' = redis
    /\ UNCHANGED <<users, cache, enable_cache, retVer, rlVars>>

\* disconnect(): if not self._redis: warn and return; otherwise close the
\* client and the pool and set self._redis = None
Start_disconnect(p) ==
    /\ Free(p)
    /\ Step(p, Done(Begin("disconnect", "idle", 0, NoData),
                    [NoResult EXCEPT !.status = IF redis = "None"
                                                THEN "not connected"
                                                ELSE "closed",
                                     !.field = redis]))
    /\ redis' = "None"
    /\ UNCHANGED <<users, cache, enable_cache, retVer, rlVars>>

\* get_client(): if not self._redis: raise RuntimeError; return self._redis
\* (field records which client the caller got)
Start_get_client(p) ==
    /\ Free(p)
    /\ Step(p, Done(Begin("get_client", "idle", 0, NoData),
                    [NoResult EXCEPT !.status = IF redis = "None"
                                                THEN "RuntimeError"
                                                ELSE "client",
                                     !.field = redis]))
    /\ UNCHANGED <<users, cache, enable_cache, redis, retVer, rlVars>>

NextManager ==
    \E p \in Procs :
        \/ Start_connect(p)
        \/ connect_ping(p)
        \/ Start_disconnect(p)
        \/ Start_get_client(p)
        \/ Finish(p)

-----------------------------------------------------------------------------
(* The rate limiter *)

InitRL ==
    /\ users = << >>
    /\ cache = [id \in Ids |-> NoEntry]
    /\ enable_cache = TRUE
    /\ redis = "None"
    /\ proc = [p \in Procs |-> Idle]
    /\ retVer = [id \in Ids |-> 0]
    /\ rl = [c \in Clients |-> NoCounter]
    /\ req = [p \in Procs |-> NoRequest]

NextRL ==
    \/ connect
    \/ disconnect
    \/ Tick
    \/ \E p \in Procs :
        \/ rl_request(p)
        \/ rl_bypass(p)
        \/ rl_incr(p)
        \/ rl_expire(p)
        \/ rl_ttl(p)
        \/ rl_call(p)
        \/ rl_except(p)
        \/ rl_finish(p)

RLSpec == InitRL /\ [][NextRL]_vars

\* the rate limiter during one window: no counter key expires
NextWindow ==
    \/ connect
    \/ disconnect
    \/ \E p \in Procs :
        \/ rl_request(p)
        \/ rl_bypass(p)
        \/ rl_incr(p)
        \/ rl_expire(p)
        \/ rl_ttl(p)
        \/ rl_call(p)
        \/ rl_except(p)
        \/ rl_finish(p)

WindowSpec == InitRL /\ [][NextWindow]_vars

\* the manager from cache_manager = CacheManager() on: self._redis is None
ManagerSpec == InitRL /\ [][NextManager]_vars

-----------------------------------------------------------------------------
(* The service on an existing account: the table holds one user, active *)
(* or deactivated by an earlier update; the Redis connection comes and   *)
(* goes                                                                  *)

\* a row as the database holds it
Seeded(id, email, username, active, superuser, deleted) ==
    [NewUser(id, [NoData EXCEPT !.email = email, !.username = username,
                                !.full_name = "n1", !.password = "Pw1"], id)
        EXCEPT !.is_active = active, !.is_superuser = superuser,
               !.deleted_at = IF deleted THEN now ELSE NULL]

InitAccount ==
    /\ users \in {<< Seeded(1, <<1, 53>>, <<1, 1, 1>>, a, FALSE, FALSE) >> :
                     a \in BOOLEAN}
    /\ cache = [id \in Ids |-> NoEntry]
    /\ enable_cache \in BOOLEAN
    /\ redis = "None"
    /\ proc = [p \in Procs |-> Idle]
    /\ retVer = [id \in Ids |-> 0]
    /\ rl = [c \in Clients |-> NoCounter]
    /\ req = [p \in Procs |-> NoRequest]

NextAccount ==
    \/ connect
    \/ disconnect
    \/ ExpireUserKey
    \/ \E p \in Procs :
        \/ Start_get_user_by_id(p)
        \/ Start_mutation(p)
        \/ Start_delete_user(p)
        \/ Start_update_is_active(p)
        \/ Start_get_verified(p)
        \/ get_user_by_id_cache(p)
        \/ get_user_by_id_db(p)
        \/ get_user_by_id_set(p)
        \/ update_user_email(p)
        \/ update_user_username(p)
        \/ commit(p)
        \/ refresh(p)
        \/ invalidate(p)
        \/ Finish(p)

AccountSpec == InitAccount /\ [][NextAccount]_vars

-----------------------------------------------------------------------------
(* The routes behind the authentication dependencies: the table holds    *)
(* user 1, the account the requests address, and user 2; their flags are *)
(* whatever the database was seeded with                                 *)

InitAuth ==
    /\ users \in {<< Seeded(1, <<1, 53>>, <<1, 1, 1>>, a1, s1, FALSE),
                      Seeded(2, <<2, 53>>, <<2, 2, 2>>, a2, s2, d2) >> :
                     a1 \in BOOLEAN, s1 \in BOOLEAN,
                     a2 \in BOOLEAN, s2 \in BOOLEAN, d2 \in BOOLEAN}
    /\ cache = [id \in Ids |-> NoEntry]
    /\ enable_cache = TRUE
    /\ redis = "client"
    /\ proc = [p \in Procs |-> Idle]
    /\ retVer = [id \in Ids |-> 0]
    /\ rl = [c \in Clients |-> NoCounter]
    /\ req = [p \in Procs |-> NoRequest]

NextAuth ==
    \E p \in Procs :
        \/ Start_route(p)
        \/ Start_get_current_superuser(p)
        \/ authorize(p)
        \/ get_user_by_id_cache(p)
        \/ get_user_by_id_db(p)
        \/ get_user_by_id_set(p)
        \/ update_user_email(p)
        \/ update_user_username(p)
        \/ commit(p)
        \/ refresh(p)
        \/ invalidate(p)
        \/ Finish(p)

AuthSpec == InitAuth /\ [][NextAuth]_vars

-----------------------------------------------------------------------------
(* CacheManager.get over the values a key can hold *)

\* A key holds nothing, or what CacheManager.set stored: json.dumps of a
\* dict, list or tuple; a str as it is (a text that is not a JSON document,
\* such as "abc" or a truncated "{"); pickle.dumps of any other object.
InitCache ==
    /\ users = << >>
    /\ cache \in [Ids -> {NoEntry,
                          [enc |-> "json", val |-> [dict |-> "d1"],
                           ttl |-> UserTtl],
                          [enc |-> "str", val |-> [str |-> "{"],
                           ttl |-> UserTtl],
                          Serialize(Seeded(1, <<1, 53>>, <<1, 1, 1>>,
                                           TRUE, FALSE, FALSE), UserTtl)}]
    /\ enable_cache \in BOOLEAN
    /\ redis = "None"
    /\ proc = [p \in Procs |-> Idle]
    /\ retVer = [id \in Ids |-> 0]
    /\ rl = [c \in Clients |-> NoCounter]
    /\ req = [p \in Procs |-> NoRequest]

NextCache ==
    \/ connect
    \/ disconnect
    \/ ExpireUserKey
    \/ \E p \in Procs :
        \/ Start_cache_get(p)
        \/ cache_get(p)
        \/ Finish(p)

CacheSpec == InitCache /\ [][NextCache]_vars

-----------------------------------------------------------------------------
(* The access tokens: issued or brought by a bearer, kept for a while,   *)
(* perhaps altered, then decoded                                         *)

InitToken ==
    /\ users = << >>
    /\ cache = [id \in Ids |-> NoEntry]
    /\ enable_cache = TRUE
    /\ redis = "client"
    /\ proc = [p \in Procs |-> Idle]
    /\ retVer = [id \in Ids |-> 0]
    /\ rl = [c \in Clients |-> NoCounter]
    /\ req = [p \in Procs |-> NoRequest]

NextToken ==
    \E p \in Procs :
        \/ Start_issue(p)
        \/ Start_present(p)
        \/ tamper(p)
        \/ wait(p)
        \/ verify(p)
        \/ Finish(p)

TokenSpec == InitToken /\ [][NextToken]_vars

-----------------------------------------------------------------------------
(* Registration: users are created and read back by their callers while *)
(* other callers update and delete them                                 *)

NextCreate ==
    \/ ExpireUserKey
    \/ \E p \in Procs :
        \/ Start_create_user(p)
        \/ create_user_email(p)
        \/ create_user_username(p)
        \/ create_user_commit(p)
        \/ create_user_refresh(p)
        \/ Start_get_created(p)
        \/ get_user_by_id_cache(p)
        \/ get_user_by_id_db(p)
        \/ get_user_by_id_set(p)
        \/ Start_mutation(p)
        \/ Start_delete_user(p)
        \/ update_user_email(p)
        \/ update_user_username(p)
        \/ commit(p)
        \/ refresh(p)
        \/ invalidate(p)
        \/ Finish(p)

CreateSpec == Init /\ [][NextCreate]_vars

-----------------------------------------------------------------------------
(* Listing: a table of three users, created at the same or at different *)
(* times, active or not, deleted or not, is listed page by page          *)

\* t: the creation times of the three rows in the order of their ids;
\* D: the rows that were soft-deleted before the listing
InitList ==
    /\ users \in {[i \in 1 .. 3 |->
                        [Seeded(i, <<i, 53>>, <<i, i, i>>, a[i], FALSE, i \in D)
                            EXCEPT !.created_at = t[i]]] :
                     t \in { <<1, 2, 3>>, <<1, 1, 2>>, <<1, 2, 2>> },
                     a \in [1 .. 3 -> BOOLEAN],
                     D \in { {}, {2}, {1, 3} }}
    /\ cache = [id \in Ids |-> NoEntry]
    /\ enable_cache = TRUE
    /\ redis = "client"
    /\ proc = [p \in Procs |-> Idle]
    /\ retVer = [id \in Ids |-> 0]
    /\ rl = [c \in Clients |-> NoCounter]
    /\ req = [p \in Procs |-> NoRequest]

NextList ==
    \E p \in Procs :
        \/ Start_get_users(p)
        \/ get_users_count(p)
        \/ get_users_page(p)
        \/ Finish(p)

ListSpec == InitList /\ [][NextList]_vars

-----------------------------------------------------------------------------
(* Passwords: hashed once or twice, then a password is tried on a digest *)

NextPassword ==
    \E p \in Procs :
        \/ Start_get_password_hash(p)
        \/ get_password_hash_again(p)
        \/ check_password(p)
        \/ Finish(p)

PasswordSpec == InitToken /\ [][NextPassword]_vars

TypeOK == Len(users) <= MaxUsers


-----------------------------------------------------------------------------
(* Properties *)

IsDone(p, op) == proc[p].op = op /\ proc[p].pc = "done"

\* C1: a get_user_by_id that starts after update_user has returned its
\* user never returns a row older than the one that update committed, also
\* when Redis still held (or again holds) the pre-patch snapshot.
C1_CacheCoherence ==
    \A p \in Procs :
        (IsDone(p, "get_user_by_id") /\ proc[p].res.status = "user")
            => proc[p].user.ver >= proc[p].floor

\* the read found the pre-patch snapshot in Redis and still answered with
\* the committed row
C1_Witness ==
    \E p \in Procs :
        /\ IsDone(p, "get_user_by_id")
        /\ proc[p].res.status = "user"
        /\ proc[p].floor > 0
        /\ proc[p].sawStale

\* C2: get_user_by_id, get_user_by_email and get_user_by_username never
\* answer with a user whose row carried a deletion timestamp when the
\* answer was obtained, from the cache or from the store.
C2_SoftDeletedIsAbsent ==
    \A p \in Procs :
        (/\ proc[p].op \in {"get_user_by_id", "get_user_by_email",
                            "get_user_by_username"}
         /\ proc[p].pc = "done"
         /\ proc[p].res.status = "user")
            => ~proc[p].readDeleted

\* get_user_by_id answered None for a soft-deleted user whose snapshot is
\* still in Redis
C2_Witness ==
    \E p \in Procs :
        /\ IsDone(p, "get_user_by_id")
        /\ proc[p].res.status = "None"
        /\ StoreDeleted(proc[p].id)
        /\ cache[proc[p].id] # NoEntry

\* C3: get_current_user resolves a valid token to a principal only if the
\* subject's row exists and carries no deletion timestamp, otherwise it
\* signals 401; a deletion timestamp, once committed, is never removed, so
\* no token of a deleted user is resolved later, whatever Redis holds.
C3_DeletedSubjectUnauthenticated ==
    /\ [](\A p \in Procs :
            IsDone(p, "get_current_user") =>
                /\ proc[p].decoded = "claims" =>
                      proc[p].res.status \in {"user", "Unauthenticated"}
                /\ proc[p].res.status = "user" =>
                      /\ proc[p].id \in RowIds
                      /\ ~proc[p].readDeleted
                      /\ proc[p].user.id = proc[p].id)
    /\ [][\A id \in Ids : StoreDeleted(id) => StoreDeleted(id)']_vars

\* a valid token of a soft-deleted user was answered with 401 while Redis
\* holds a snapshot of that user
C3_Witness ==
    \E p \in Procs :
        /\ IsDone(p, "get_current_user")
        /\ proc[p].id # 0
        /\ StoreDeleted(proc[p].id)
        /\ proc[p].res.status = "Unauthenticated"
        /\ cache[proc[p].id] # NoEntry

\* C7: update_user, delete_user and verify_user_email issue the cache
\* invalidation only after their commit has succeeded; a request whose
\* commit failed has issued none.
C7_InvalidateAfterCommit ==
    \A p \in Procs :
        proc[p].op \in Mutations =>
            /\ proc[p].invalidated => proc[p].committed
            /\ proc[p].res.status \in {"StoreError", "IntegrityError"}
                  => ~proc[p].invalidated

\* a commit failed and the snapshot in Redis was left alone
C7_Witness ==
    \E p \in Procs :
        /\ proc[p].op \in Mutations
        /\ proc[p].pc = "done"
        /\ proc[p].res.status = "StoreError"
        /\ ~proc[p].invalidated
        /\ cache[proc[p].id] # NoEntry

\* C8: no two non-deleted users share an email or a username.
C8_UniqueEmailUsername ==
    \A i, j \in RowIds :
        (i # j /\ users[i].deleted_at = NULL /\ users[j].deleted_at = NULL)
            => /\ users[i].email # users[j].email
               /\ users[i].username # users[j].username

\* two creates passed the pre-check and the store let only one of them in
C8_Witness ==
    /\ Len(users) >= 1
    /\ \E p \in Procs : proc[p].op = "create_user" /\ proc[p].lostRace

\* C9 (as claimed): the create that loses the race at the unique index
\* surfaces a duplicate error (the route answers 400).
C9_LoserGetsDuplicateError ==
    \A p \in Procs :
        (IsDone(p, "create_user") /\ proc[p].lostRace)
            => proc[p].res.http = 400

EmailTaken(email) ==
    \E i \in RowIds : /\ users[i].deleted_at = NULL
                      /\ users[i].email = validate_email(email)

UsernameTaken(username) ==
    \E i \in RowIds : /\ users[i].deleted_at = NULL
                      /\ users[i].username = validate_username(username)

\* C10: create_user raises the email error when a non-deleted user has the
\* email, the username error when only the username is taken (the email is
\* checked first), and a rejected create persists nothing.
C10_CreateRejectsDuplicates ==
    [][\A p \in Procs :
        (proc[p].op = "create_user" /\ proc'[p] # proc[p]) =>
            /\ (proc[p].pc = "cr_email" /\ EmailTaken(proc[p].data.email))
                  => proc'[p].res = create_user_route(RaisedValueError("email"))
            /\ (proc[p].pc = "cr_username"
                    /\ UsernameTaken(proc[p].data.username))
                  => proc'[p].res =
                        create_user_route(RaisedValueError("username"))
            /\ proc'[p].pc = "cr_username"
                  => (proc[p].pc = "cr_email"
                        /\ ~EmailTaken(proc[p].data.email))
            /\ proc'[p].res.status = "ValueError"
                  => /\ users' = users
                     /\ ~proc'[p].committed
                     /\ proc'[p].res.http = 400]_vars

\* email and username are both taken and the email error is the one raised
C10_Witness ==
    \E p \in Procs :
        /\ IsDone(p, "create_user")
        /\ proc[p].res.status = "ValueError"
        /\ proc[p].res.field = "email"
        /\ EmailTaken(proc[p].data.email)
        /\ UsernameTaken(proc[p].data.username)
        /\ ~proc[p].committed


Limited(p) == req[p].pc = "done" /\ ~startswith_health(req[p].path)

\* C4 (as claimed): a request whose post-increment count is at most the
\* threshold is passed downstream, every further one is answered 429 with
\* a retry hint that is a positive number of seconds.
C4_RejectWithPositiveRetry ==
    \A p \in Procs :
        (Limited(p) /\ ~req[p].failed) =>
            /\ req[p].count <= requests_per_minute
                  => (req[p].outcome # "429" /\ req[p].calls >= 1)
            /\ req[p].count > requests_per_minute
                  => (req[p].outcome = "429" /\ req[p].retry_after > 0)

\* C5 (as claimed): the counter key expires, so the count resets once the
\* window has elapsed: outside the gap between a first INCR and its EXPIRE,
\* every existing counter carries a running TTL.
C5_CounterExpires ==
    \A c \in Clients :
        (/\ rl[c].count > 0
         /\ ~\E p \in Procs : req[p].pc = "expire" /\ req[p].client = c)
            => rl[c].ttl > 0

\* C6: a request for which get_client, INCR, EXPIRE or TTL failed is passed
\* downstream; it is not answered 429, and it fails only if the downstream
\* handler itself raises.
C6_FailOpen ==
    \A p \in Procs :
        (Limited(p) /\ req[p].failed) =>
            /\ req[p].calls >= 1
            /\ req[p].outcome \in {"passed", "error"}
            /\ req[p].outcome = "error" => req[p].raised >= 1

\* a request over the threshold was let through because the backend failed
C6_Witness ==
    \E p \in Procs :
        /\ Limited(p)
        /\ req[p].failed
        /\ req[p].count > requests_per_minute
        /\ req[p].outcome = "passed"

-----------------------------------------------------------------------------
(* UserService.delete_user *)

\* C11 (as claimed): delete_user answers True at most once per id: a
\* delete whose row already carried a deletion timestamp, when the call
\* started or when its own UPDATE was applied, does not answer True.
C11_DeleteSucceedsOnce ==
    \A p \in Procs :
        (IsDone(p, "delete_user") /\ proc[p].res.status = "True")
            => ~proc[p].alreadyDeleted

\* C12 (as claimed): once delete_user has answered True the row carries a
\* deletion timestamp and is_active = False, the invalidation of user:<id>
\* has been issued, and a get_user_by_id that reads after the deletion
\* answers None.
C12_DeletePostcondition ==
    /\ [](\A p \in Procs :
            (IsDone(p, "delete_user") /\ proc[p].res.status = "True") =>
                /\ StoreDeleted(proc[p].id)
                /\ users[proc[p].id].is_active = FALSE
                /\ proc[p].invalidated)
    /\ [][\A p \in Procs :
            (/\ proc[p].op = "get_user_by_id"
             /\ proc[p].pc \in {"gid_cache", "gid_db"}
             /\ StoreDeleted(proc[p].id)
             /\ proc'[p].pc = "done")
                => proc'[p].res.status = "None"]_vars

-----------------------------------------------------------------------------
(* Authentication and authorization *)

\* C13: the dependencies run in the order get_current_user,
\* get_current_active_user, get_current_superuser and stop at the first
\* failure: an invalid token or a missing subject gives 401 whatever the
\* flags of the row, a resolved inactive user gives 403 "Inactive user"
\* also when superuser, and only an active resolved user is refused, or
\* admitted, on is_superuser.
C13_PipelineOrder ==
    \A p \in Procs :
        (IsDone(p, "authorize") /\ proc[p].route = "superuser") =>
            LET c == proc[p].caller
                res == proc[p].res
            IN /\ (proc[p].decoded # "claims" \/ c = NoUser)
                     <=> res = Unauthenticated
               /\ (proc[p].sub # 0 /\ ~(proc[p].sub \in RowIds))
                     => res = Unauthenticated
               /\ proc[p].readDeleted => res = Unauthenticated
               /\ (c # NoUser /\ ~c.is_active)
                     => res = Forbidden("Inactive user")
               /\ (c # NoUser /\ c.is_active /\ ~c.is_superuser)
                     => res = Forbidden("Not enough privileges")
               /\ (c # NoUser /\ c.is_active /\ c.is_superuser)
                     => res = Returned(c)

\* the caller that get_current_user resolved for request p is active and
\* is entitled to the request: the account itself or a superuser for PUT,
\* a superuser for DELETE
Authorized(p) ==
    LET c == proc[p].caller
    IN /\ c # NoUser
       /\ c.is_active
       /\ IF proc[p].route = "PUT"
          THEN c.id = proc[p].id \/ c.is_superuser
          ELSE c.is_superuser

\* C14: through PUT and DELETE /users/{user_id} the service method runs
\* only for an authorized caller; every other resolved caller is answered
\* 403, and a step that changes the table or Redis is a step of a request
\* whose caller is authorized.
C14_RoutesAuthorize ==
    /\ [](\A p \in Procs :
            proc[p].route \in {"PUT", "DELETE"} =>
                /\ proc[p].op \in {"update_user", "delete_user"}
                      => Authorized(p)
                /\ (proc[p].op = "authorize" /\ proc[p].pc = "done")
                      => /\ ~Authorized(p)
                         /\ proc[p].caller # NoUser
                               => proc[p].res.http = 403
                         /\ ~proc[p].committed
                         /\ ~proc[p].invalidated)
    /\ [][(users' # users \/ cache' # cache) =>
            \E p \in Procs : /\ proc'[p] # proc[p]
                             /\ proc[p].route \in {"PUT", "DELETE"}
                             /\ Authorized(p)]_vars

\* an active user who is no superuser was refused the deletion of the own
\* account
C14_Witness ==
    \E p \in Procs :
        /\ IsDone(p, "authorize")
        /\ proc[p].route = "DELETE"
        /\ proc[p].caller # NoUser
        /\ proc[p].caller.id = proc[p].id
        /\ proc[p].caller.is_active
        /\ proc[p].res = Forbidden("Only superusers can delete users")

-----------------------------------------------------------------------------
(* Cache failures *)

\* C15: a failing cache call never fails get_user_by_id, update_user,
\* delete_user or verify_user_email: get_user_by_id answers a user or None,
\* an error comes from the uniqueness checks or from the commit only, a
\* request whose commit succeeded returns its result, and a read that
\* cannot reach Redis goes on to the store.
C15_CacheErrorsAbsorbed ==
    /\ [](\A p \in Procs :
            (proc[p].pc = "done"
                /\ proc[p].op \in {"get_user_by_id"} \cup Mutations) =>
                /\ proc[p].op = "get_user_by_id"
                      => proc[p].res.status \in {"user", "None"}
                /\ proc[p].res.status \in {"StoreError", "IntegrityError"}
                      => ~proc[p].committed
                /\ proc[p].committed
                      => /\ proc[p].res.status \in {"user", "True"}
                         /\ proc[p].res.status = "user"
                               => proc[p].res.user.id = proc[p].id)
    /\ [][\A p \in Procs :
            (/\ proc[p].pc = "gid_cache"
             /\ proc'[p] # proc[p]
             /\ redis = "None" \/ ~enable_cache)
                => proc'[p].pc = "gid_db"]_vars

\* delete_user answered True although Redis was unreachable when it
\* invalidated: the snapshot is still there
C15_Witness ==
    \E p \in Procs :
        /\ IsDone(p, "delete_user")
        /\ proc[p].res.status = "True"
        /\ enable_cache
        /\ redis = "None"
        /\ cache[proc[p].id] # NoEntry

-----------------------------------------------------------------------------
(* Store failures *)

\* C16: when the commit of create_user, update_user, delete_user or
\* verify_user_email fails, the error reaches the caller (through the
\* routes as 500), the step leaves the table and Redis as they were, and
\* the request has neither committed nor invalidated anything.
C16_FailedCommitChangesNothing ==
    /\ [](\A p \in Procs :
            proc[p].res.status \in {"StoreError", "IntegrityError"} =>
                /\ proc[p].pc = "done"
                /\ ~proc[p].committed
                /\ ~proc[p].invalidated
                /\ proc[p].op = "create_user" => proc[p].res.http = 500)
    /\ [][\A p \in Procs :
            (/\ proc[p].pc \in {"commit", "cr_commit"}
             /\ proc'[p].res.status \in {"StoreError", "IntegrityError"})
                => (users' = users /\ cache' = cache)]_vars

\* an update_user whose commit failed: the object it changed in memory
\* differs from the row, which kept its values
C16_Witness ==
    \E p \in Procs :
        /\ IsDone(p, "update_user")
        /\ proc[p].res.status = "StoreError"
        /\ \E f \in proc[p].dirty :
              users[proc[p].id][f] # proc[p].user[f]

-----------------------------------------------------------------------------
(* CacheManager.get *)

\* C17 (as claimed): get answers the default when caching is disabled,
\* when the Redis call raises and when the stored value is neither JSON
\* nor a pickle it can load; it answers a value only for a key that is
\* present with caching enabled, and then the deserialized value.
C17_GetMissesOnFailure ==
    \A p \in Procs :
        IsDone(p, "cache_get") =>
            /\ proc[p].reply.enc \in {"skipped", "error", "nil", "str",
                                       "pickle"}
                  => proc[p].res.status = "None"
            /\ proc[p].res.status = "value"
                  => /\ enable_cache
                     /\ proc[p].reply.enc = "json"
                     /\ proc[p].res.user = proc[p].reply.val

\* C18: a token that create_access_token issued for user id S and that is
\* decoded unaltered and not after its expiry gives claims whose user id is
\* S; a token that was altered, that is not signed with the key or that is
\* past its expiry is invalid (None).
C18_TokenRoundTrip ==
    \A p \in Procs :
        IsDone(p, "verify") =>
            LET r == proc[p]
                t == r.token
                expired == t.exp < r.at
                tampered == r.altered
                              \/ t.sig # Sign(jwt_secret_key, t.has_sub,
                                              t.sub, t.exp)
            IN /\ (expired \/ tampered) => r.res.status = "None"
               /\ (r.issuedFor # 0 /\ ~expired /\ ~tampered) =>
                      /\ r.res.status = "claims"
                      /\ r.res.user.id = r.issuedFor

\* a token issued for user id 10 is decoded to user id 10
C18_Witness ==
    \E p \in Procs :
        /\ IsDone(p, "verify")
        /\ proc[p].issuedFor = 10
        /\ proc[p].token.sub = <<55, 54>>
        /\ ~proc[p].altered
        /\ proc[p].res.status = "claims"
        /\ proc[p].res.user.id = 10

\* C19: decode_access_token answers every token with claims or with None
\* and raises nothing, also for a token signed with the key whose subject
\* is missing or is not a number.
C19_DecodeFailsClosed ==
    \A p \in Procs :
        IsDone(p, "verify") => proc[p].res.status \in {"claims", "None"}

\* C20: get_user_by_id of the id that create_user returned, before any
\* update of the row, gives the user whose email and username are the
\* input lower-cased and trimmed, who is active, not verified and no
\* superuser, and whose hashed_password is not the password; it gives None
\* only if the user was deleted in between.
C20_CreateGetRoundTrip ==
    \A p \in Procs :
        (IsDone(p, "get_user_by_id") /\ proc[p].input # NoData) =>
            LET d == proc[p].input
                res == proc[p].res
                user == res.user
            IN /\ res.status \in {"user", "None"}
               /\ res.status = "None" => StoreDeleted(proc[p].id)
               /\ (res.status = "user" /\ user.ver = 0) =>
                      /\ user.id = proc[p].id
                      /\ user.email = strip(lower(d.email))
                      /\ user.username = strip(lower(d.username))
                      /\ user.is_active
                      /\ ~user.is_verified
                      /\ ~user.is_superuser
                      /\ user.hashed_password # StoredPlain(d.password)

\* the user created with the email "A@" was read back with the email "a@"
C20_Witness ==
    \E p \in Procs :
        /\ IsDone(p, "get_user_by_id")
        /\ proc[p].input.email = <<27, 53>>
        /\ proc[p].res.status = "user"
        /\ proc[p].res.user.ver = 0
        /\ proc[p].res.user.email = <<1, 53>>
        /\ proc[p].res.user.is_active
        /\ ~proc[p].res.user.is_verified

-----------------------------------------------------------------------------
(* Updates *)

\* the columns that a UserUpdate body names
Patched(d) ==
    {f \in {"email", "username", "full_name", "hashed_password",
            "is_active"} :
        \/ f = "email" /\ d.email # NoStr
        \/ f = "username" /\ d.username # NoStr
        \/ f = "full_name" /\ d.full_name # "None"
        \/ f = "hashed_password" /\ d.password # "None"
        \/ f = "is_active" /\ d.is_active # "None"}

\* C21: the commit of update_user(id, patch) writes only row id and in it
\* only the columns the patch names (and the bookkeeping column updated_at):
\* every other column and every other row stay as they are; when the row
\* is still as the request loaded it, every column the patch names holds
\* the value of the patch afterwards.
C21_UpdateFrame ==
    [][\A p \in Procs :
        (proc[p].op = "update_user" /\ proc[p].pc = "commit"
            /\ proc'[p].pc # "commit") =>
            LET id == proc[p].id
                d == proc[p].data
                row == users[id]
                new == users'[id]
            IN /\ Len(users') = Len(users)
               /\ \A i \in RowIds \ {id} : users'[i] = users[i]
               /\ \A f \in DOMAIN row \ (Patched(d) \cup {"updated_at", "ver"}) :
                      new[f] = row[f]
               /\ (proc'[p].committed /\ row.ver = proc[p].user.ver) =>
                      /\ d.email # NoStr => new.email = strip(lower(d.email))
                      /\ d.username # NoStr
                            => new.username = strip(lower(d.username))
                      /\ d.full_name # "None" => new.full_name = d.full_name
                      /\ d.password # "None"
                            => new.hashed_password[3] = d.password
                      /\ d.is_active # "None"
                            => new.is_active = (d.is_active = "True")]_vars

\* an update that names the username and the password only has been
\* committed, and the row carries the new username
C21_Witness ==
    \E p \in Procs :
        /\ proc[p].op = "update_user"
        /\ proc[p].committed
        /\ proc[p].cver > 0
        /\ proc[p].data.email = NoStr
        /\ proc[p].data.username = <<2, 2, 2>>
        /\ users[proc[p].id].username = <<2, 2, 2>>
        /\ users[proc[p].id].hashed_password[3] = proc[p].data.password

-----------------------------------------------------------------------------
(* Listing *)

\* C22: get_users(skip, limit, is_active) returns, of the users that are
\* not deleted and match the filter, those at positions skip+1 ..
\* skip+limit of a newest-first order: no more than limit rows, as many as
\* are left after skip, each a matching row, none twice, newest first, the
\* k-th with at most skip+k-1 matching rows newer than it and at least
\* skip+k matching rows as new; the total is the number of all matching
\* users whatever skip and limit are.
C22_ListPage ==
    \A p \in Procs :
        IsDone(p, "get_users") =>
            LET r == proc[p]
                f == r.data.is_active
                M == {i \in RowIds :
                        /\ users[i].deleted_at = NULL
                        /\ f = "True" => users[i].is_active
                        /\ f = "False" => ~users[i].is_active}
                N == Cardinality(M)
                left == IF N > r.skip THEN N - r.skip ELSE 0
                n == Len(r.items)
            IN /\ r.total = N
               /\ n <= r.limit
               /\ n = IF left < r.limit THEN left ELSE r.limit
               /\ \A k \in 1 .. n :
                     /\ r.items[k].id \in M
                     /\ r.items[k] = users[r.items[k].id]
                     /\ \A j \in 1 .. n : j # k => r.items[j].id # r.items[k].id
                     /\ \A j \in 1 .. n : j < k =>
                           r.items[j].created_at >= r.items[k].created_at
                     /\ Cardinality({i \in M : users[i].created_at
                                                > r.items[k].created_at})
                           <= r.skip + k - 1
                     /\ Cardinality({i \in M : users[i].created_at
                                                >= r.items[k].created_at})
                           >= r.skip + k

\* the second page of one row of three listed users holds the one in the
\* middle, older than the newest and newer than the oldest
C22_Witness ==
    \E p \in Procs :
        /\ IsDone(p, "get_users")
        /\ proc[p].skip = 1
        /\ proc[p].limit = 1
        /\ proc[p].total = 3
        /\ Len(proc[p].items) = 1
        /\ \E i, j \in RowIds :
              /\ users[i].created_at > proc[p].items[1].created_at
              /\ users[j].created_at < proc[p].items[1].created_at

-----------------------------------------------------------------------------
(* Email verification *)

\* C23: verify_user_email(id) on a user that exists and is not deleted
\* returns the user with is_verified set and a timestamp in
\* email_verified_at, the row in the table carries both, the commit was
\* followed by the delete of the key user:<id> (which removes the key or,
\* when Redis fails, leaves Redis as it is), and the get_user_by_id(id)
\* that follows shows is_verified, or None if the user was deleted
\* meanwhile.
C23_VerifyEmail ==
    /\ [](\A p \in Procs :
            /\ IsDone(p, "verify_user_email") =>
                  LET r == proc[p]
                  IN /\ r.res.status = "None" => StoreDeleted(r.id)
                     /\ r.res.status = "user" =>
                           /\ r.res.user.is_verified
                           /\ r.res.user.email_verified_at # NULL
                           /\ users[r.id].is_verified
                           /\ users[r.id].email_verified_at # NULL
                           /\ r.committed
                           /\ r.invalidated
            /\ (IsDone(p, "get_user_by_id")
                   /\ proc[p].prev = "verify_user_email") =>
                  /\ proc[p].res.status \in {"user", "None"}
                  /\ proc[p].res.status = "user"
                        => proc[p].res.user.is_verified
                  /\ proc[p].res.status = "None" => StoreDeleted(proc[p].id))
    /\ [][\A p \in Procs :
            (proc[p].op = "verify_user_email" /\ proc[p].pc = "invalidate"
                /\ proc'[p].pc = "done") =>
                \/ cache'[proc[p].id] = NoEntry
                \/ cache' = cache]_vars

\* the user was verified and the read that followed showed it
C23_Witness ==
    \E p \in Procs :
        /\ IsDone(p, "get_user_by_id")
        /\ proc[p].prev = "verify_user_email"
        /\ proc[p].res.status = "user"
        /\ proc[p].res.user.is_verified
        /\ proc[p].res.user.email_verified_at # NULL

-----------------------------------------------------------------------------
(* Rate limiting *)

\* C24: a request whose path starts with "/health" is handed to call_next
\* exactly once and never answered 429, whatever the counter of its client
\* says, and no step of such a request changes a counter or its expiry.
C24_HealthBypass ==
    /\ [](\A p \in Procs :
            (req[p].pc = "done" /\ req[p].path # << >>
                /\ req[p].path[1] = "/health") =>
                /\ req[p].outcome \in {"passed", "error"}
                /\ req[p].calls = 1
                /\ ~req[p].failed
                /\ req[p].count = 0)
    /\ [][\A p \in Procs :
            (req'[p] # req[p]
                /\ \/ req[p].path # << >> /\ req[p].path[1] = "/health"
                   \/ req'[p].path # << >> /\ req'[p].path[1] = "/health")
                => rl' = rl]_vars

\* a health check was passed on while the counter of its client was over
\* the limit
C24_Witness ==
    \E p \in Procs :
        /\ req[p].pc = "done"
        /\ req[p].path = <<"/health", "/ready">>
        /\ req[p].outcome = "passed"
        /\ rl[req[p].client].count > requests_per_minute

-----------------------------------------------------------------------------
(* Passwords *)

C26_CallsAtMostOnce ==
    \A p \in Procs :
        Limited(p) =>
            /\ req[p].calls <= 1
            /\ req[p].outcome = "429" => req[p].calls = 0
            /\ req[p].outcome = "passed" => req[p].calls >= 1

-----------------------------------------------------------------------------
(* Readers and writers of one user *)

\* C27 (as claimed): a get_user_by_id that missed the cache never leaves in
\* Redis a snapshot older than the committed row once the writer has
\* invalidated: when its SET stores a snapshot that is not the row of the
\* table, a writer of that user is still between its commit and its
\* invalidation and will remove it.
C27_NoStaleRepopulation ==
    [][\A p \in Procs :
        (proc[p].pc = "gid_set" /\ proc'[p].pc # "gid_set"
            /\ cache'[proc[p].id] # cache[proc[p].id]) =>
            \/ cache'[proc[p].id].val = users[proc[p].id]
            \/ \E q \in Procs :
                  /\ proc[q].op \in Mutations
                  /\ proc[q].id = proc[p].id
                  /\ proc[q].pc \in {"refresh", "invalidate"}]_vars

\* C28 (as claimed): update_user raises the duplicate error for the email
\* (the username) only when another user that is not deleted holds the
\* email (the username) of the patch, never because of the row of the
\* user itself; the step that raises leaves the table and Redis as they
\* are.
C28_UpdateDuplicateOnlyOthers ==
    [][\A p \in Procs :
        (proc[p].op = "update_user"
            /\ proc[p].pc \in {"upd_email", "upd_username"}
            /\ proc'[p].res.status = "ValueError") =>
            LET id == proc[p].id
                f == IF proc[p].pc = "upd_email" THEN "email" ELSE "username"
                v == strip(lower(proc[p].data[f]))
            IN /\ proc'[p].res.field = f
               /\ \E i \in RowIds \ {id} :
                     users[i].deleted_at = NULL /\ users[i][f] = v
               /\ users' = users
               /\ cache' = cache]_vars

\* C29: while the counter key of a client does not expire, the requests of
\* that client whose INCR succeeded hold pairwise different counts, under
\* every interleaving, and no more than requests_per_minute requests find
\* the counter within the limit and are handed to call_next for it.
C29_WindowAdmitsAtMostLimit ==
    /\ \A c \in Clients : rl[c].admitted <= requests_per_minute
    /\ \A p, q \in Procs :
          (p # q /\ req[p].client = req[q].client
              /\ req[p].count > 0 /\ req[q].count > 0)
              => req[p].count # req[q].count
    /\ \A p \in Procs :
          (req[p].pc = "call" \/ (req[p].pc = "done" /\ ~req[p].failed
                                    /\ req[p].outcome # "429"
                                    /\ req[p].count > 0))
              => req[p].count <= requests_per_minute

\* the limit is used up; of two concurrent requests of the client one is
\* being handed on and the other was answered 429
C29_Witness ==
    \E p, q \in Procs :
        /\ p # q
        /\ req[p].client = req[q].client
        /\ req[p].pc = "call"
        /\ req[p].count = requests_per_minute
        /\ rl[req[p].client].admitted = requests_per_minute
        /\ req[q].outcome = "429"

-----------------------------------------------------------------------------
(* Registration after a deletion *)

\* C30 (as claimed): duplicates are rejected only among the users that are
\* not deleted: the INSERT of create_user fails on a unique index only when
\* a row without deletion timestamp holds the email or the username, so
\* the email and the username of a soft-deleted user can be registered
\* again.
C30_DeletedValuesReusable ==
    [][\A p \in Procs :
        (proc[p].op = "create_user" /\ proc[p].pc = "cr_commit"
            /\ proc'[p].res.status = "IntegrityError") =>
            \E i \in RowIds :
                /\ users[i].deleted_at = NULL
                /\ \/ users[i].email = strip(lower(proc[p].data.email))
                   \/ users[i].username
                         = strip(lower(proc[p].data.username))]_vars

-----------------------------------------------------------------------------
\* C31: the expiry of a counter is set only by the request whose increment
\* returned 1, to window_size seconds; no other step sets or extends it; so
\* every counter that exists, once its first request is past the EXPIRE
\* call, runs out within window_size seconds of that request, however many
\* requests follow.
C31_ExpiryOnlyOnFirst ==
    /\ [](\A c \in Clients :
            (/\ rl[c].count > 0
             /\ ~\E p \in Procs : /\ req[p].pc = "expire"
                                  /\ req[p].client = c
                                  /\ req[p].count = 1)
                => rl[c].ttl \in 1 .. window_size)
    /\ [][\A c \in Clients :
            (rl'[c].count > 0 /\ rl'[c].ttl # rl[c].ttl
             /\ ~(rl[c].count > 0 /\ rl'[c].ttl < rl[c].ttl /\ rl[c].ttl > 0))
                => \/ rl[c].count = 0    \* INCR created the key without expiry
                   \/ \E p \in Procs :
                        /\ req[p].pc = "expire" /\ req'[p].pc = "ttl"
                        /\ req[p].client = c /\ req[p].count = 1
                        /\ rl'[c].ttl = window_size]_vars

-----------------------------------------------------------------------------
\* C32: update_user, delete_user and verify_user_email on an id whose row
\* is absent or soft-deleted when the method looks the user up go from the
\* cache check to the select and from the select to the result: None (False
\* for delete_user), with the store and every cache entry left as they
\* were, nothing committed and nothing invalidated.
C32_AbsentIsNoOp ==
    [][\A p \in Procs :
        (/\ proc[p].op \in Mutations
         /\ proc[p].pc \in {"gid_cache", "gid_db"}
         /\ proc'[p] # proc[p]
         /\ (proc[p].id \notin RowIds \/ StoreDeleted(proc[p].id)))
            => /\ users' = users
               /\ cache' = cache
               /\ \/ proc[p].pc = "gid_cache" /\ proc'[p].pc = "gid_db"
                  \/ /\ proc'[p].pc = "done"
                     /\ proc'[p].res.status =
                           IF proc[p].op = "delete_user" THEN "False"
                           ELSE "None"
                     /\ ~proc'[p].committed
                     /\ ~proc'[p].invalidated]_vars

\* an update of a soft-deleted user has answered None while Redis still
\* held a snapshot of the user
C32_Witness ==
    \E p \in Procs :
        /\ proc[p].op = "update_user"
        /\ proc[p].pc = "done"
        /\ proc[p].res.status = "None"
        /\ StoreDeleted(proc[p].id)
        /\ cache[proc[p].id] # NoEntry

-----------------------------------------------------------------------------
\* C33: starting from an empty table, in every reachable state the
\* is_superuser column of every row is false, and so is the flag of every
\* user object a request holds or has returned: create_user sets it to
\* False and update_user, verify_user_email and delete_user never write it.
C33_SuperuserNeverRaised ==
    /\ \A i \in RowIds : ~users[i].is_superuser
    /\ \A p \in Procs :
        /\ proc[p].user # NoUser => ~proc[p].user.is_superuser
        /\ proc[p].res.user # NoUser => ~proc[p].res.user.is_superuser

\* an update of a created user has been committed and returned
C33_Witness ==
    \E p \in Procs :
        /\ proc[p].op = "update_user"
        /\ proc[p].pc = "done"
        /\ proc[p].res.status = "user"
        /\ users[proc[p].id].ver >= 1
        /\ ~users[proc[p].id].is_superuser

-----------------------------------------------------------------------------
\* C34: when the service methods are called one after another, with
\* caching enabled or disabled and whatever Redis holds, every answer is
\* the one the store gives: a read returns the live row of the store or
\* None, a write returns the row it left in the store, None or False when
\* the store has no live row, and an error only when the store refused.
C34_CacheTransparent ==
    \A p \in Procs :
        proc[p].pc = "done" =>
            LET r == proc[p]
                row == SelectById(r.id)
                Answer(user) == /\ r.res.status =
                                      IF user = NoUser THEN "None" ELSE "user"
                                /\ r.res.user = user
            IN CASE r.op = "get_user_by_id" -> Answer(row)
                 [] r.op = "get_user_by_email" ->
                      Answer(SelectByEmail(r.data.email))
                 [] r.op = "get_user_by_username" ->
                      Answer(SelectByUsername(r.data.username))
                 [] r.op \in {"update_user", "verify_user_email"} ->
                      \/ Answer(row)
                      \/ /\ r.res.status = "ValueError"
                         /\ row # NoUser
                         /\ IF r.res.field = "email"
                            THEN SelectByEmail(r.data.email) # NoUser
                            ELSE SelectByUsername(r.data.username) # NoUser
                      \/ /\ r.res.status \in {"IntegrityError", "StoreError"}
                         /\ row # NoUser
                 [] r.op = "delete_user" ->
                      \/ r.res.status = "True" /\ StoreDeleted(r.id)
                      \/ r.res.status = "False" /\ row = NoUser
                      \/ r.res.status = "StoreError" /\ row # NoUser
                 [] r.op = "create_user" ->
                      \/ /\ r.res.status = "user"
                         /\ r.res.user = users[r.res.user.id]
                      \/ /\ r.res.status = "ValueError"
                         /\ IF r.res.field = "email"
                            THEN SelectByEmail(r.data.email) # NoUser
                            ELSE SelectByUsername(r.data.username) # NoUser
                      \/ r.res.status \in {"IntegrityError", "StoreError"}
                 [] OTHER -> TRUE

\* with caching enabled a get_user_by_id has answered with the row of the
\* store while Redis held a snapshot older than the last update
C34_Witness ==
    \E p \in Procs :
        /\ enable_cache
        /\ proc[p].op = "get_user_by_id"
        /\ proc[p].pc = "done"
        /\ proc[p].sawStale
        /\ proc[p].res.status = "user"
        /\ proc[p].res.user = users[proc[p].id]

-----------------------------------------------------------------------------
\* C35: get_user_by_id(id) starts with the cache check, which writes
\* nothing; after a miss the select runs: when it finds no live row the
\* answer is None and nothing is written to the cache; when it finds one,
\* the method writes that row to key user:<id> with a TTL of 300 seconds or,
\* when the write fails, leaves the cache as it was, touches no other key,
\* and returns the row it selected in both cases.
C35_GetByIdCacheAside ==
    [][\A p \in Procs :
        (proc'[p] # proc[p] /\ proc'[p].op = "get_user_by_id"
         /\ proc[p].pc # "done") =>
            LET r == proc[p]
                id == proc'[p].id
                row == SelectById(id)
            IN CASE r.pc = "idle" ->
                      proc'[p].pc = "gid_cache" /\ cache' = cache
                 [] r.pc = "gid_cache" ->
                      /\ cache' = cache
                      /\ \/ proc'[p].pc = "gid_db"
                         \/ /\ proc'[p].pc = "done"
                            /\ cache[id] # NoEntry
                 [] r.pc = "gid_db" ->
                      /\ cache' = cache
                      /\ IF row = NoUser
                         THEN /\ proc'[p].pc = "done"
                              /\ proc'[p].res = ReturnedNone
                         ELSE /\ proc'[p].pc = "gid_set"
                              /\ proc'[p].user = row
                 [] r.pc = "gid_set" ->
                      /\ proc'[p].pc = "done"
                      /\ proc'[p].res = Returned(r.user)
                      /\ \/ cache' = cache
                         \/ cache' = [cache EXCEPT ![id] =
                                        [enc |-> "pickle", val |-> r.user,
                                         ttl |-> 300]]
                 [] OTHER -> FALSE]_vars

\* a get_user_by_id has returned the row of the store and Redis holds it
\* under the user's key with the 300 second TTL
C35_Witness ==
    \E p \in Procs :
        /\ proc[p].op = "get_user_by_id"
        /\ proc[p].pc = "done"
        /\ proc[p].res.status = "user"
        /\ proc[p].res.user = users[proc[p].id]
        /\ cache[proc[p].id] =
              [enc |-> "pickle", val |-> proc[p].res.user, ttl |-> 300]

-----------------------------------------------------------------------------
\* C36: every response to a request that the limiter let through on its
\* count carries X-RateLimit-Limit equal to requests_per_minute and
\* X-RateLimit-Remaining equal to max(0, requests_per_minute - count) for
\* the count its INCR returned, which is never negative; every 429 response
\* carries the limit and a remaining of 0.
C36_RemainingQuota ==
    \A p \in Procs :
        (Limited(p) /\ ~req[p].failed) =>
            /\ req[p].outcome = "passed" =>
                  /\ req[p].limit = requests_per_minute
                  /\ req[p].remaining =
                        Max(0, requests_per_minute - req[p].count)
                  /\ req[p].remaining >= 0
            /\ req[p].outcome = "429" =>
                  /\ req[p].limit = requests_per_minute
                  /\ req[p].remaining = 0

-----------------------------------------------------------------------------
\* C37: create_user, get_user_by_email, get_user_by_username and get_users
\* go to the store only: none of their steps is a cache read, a cache write
\* or an invalidation, and no step of theirs changes the content of the
\* cache.
C37_StoreOnlyMethods ==
    [][\A p \in Procs :
        LET StoreOnly == {"create_user", "get_user_by_email",
                          "get_user_by_username", "get_users"}
        IN (proc'[p] # proc[p]
            /\ (proc[p].op \in StoreOnly \/ proc'[p].op \in StoreOnly))
               => /\ cache' = cache
                  /\ proc[p].pc \notin {"gid_cache", "gid_set", "invalidate"}
                  /\ proc'[p].pc \notin {"gid_cache", "gid_set",
                                         "invalidate"}]_vars

\* a user has been created and returned while Redis holds the snapshot of
\* another read, and the new user's key is not in the cache
C37_Witness ==
    \E p \in Procs, q \in Procs :
        /\ proc[p].op = "create_user"
        /\ proc[p].pc = "done"
        /\ proc[p].res.status = "user"
        /\ proc[q].op = "get_users"
        /\ proc[q].pc = "done"
        /\ proc[q].items # << >>
        /\ \E id \in Ids : cache[id] # NoEntry

-----------------------------------------------------------------------------
\* C38: get_client returns a client only when the client in place has been
\* pinged successfully by the connect() that created it and no disconnect()
\* followed; a connect() whose ping failed leaves the manager unconnected;
\* and connect() returns without attempting a connection only when the
\* manager holds such a verified client.
C38_ClientOnlyWhenConnected ==
    \A p \in Procs :
        proc[p].pc = "done" =>
            /\ (proc[p].op = "get_client" /\ proc[p].res.status = "client")
                  => proc[p].res.field = "client"
            /\ (proc[p].op = "connect"
                /\ proc[p].res.status = "already connected")
                  => proc[p].res.field = "client"
            /\ (proc[p].op = "connect"
                /\ proc[p].res.status = "ConnectionError"
                /\ \A q \in Procs \ {p} : proc[q].pc = "idle")
                  => redis = "None"

====
